---- MODULE Spec2Model ----
(***************************************************************************)
(* A model of damo's control-plane data model (_damon.py) and of its       *)
(* monitoring-result pipeline (_damon_result.py): the snapshot aggregator, *)
(* the binary record codec, the unit-convertible access pattern and the    *)
(* key/value serialization of the configuration tree.                      *)
(*                                                                         *)
(* Each part has its own variables and its own specification; a            *)
(* specification leaves the variables of the other parts at their idle     *)
(* values.                                                                 *)
(***************************************************************************)
EXTENDS Integers, Sequences, FiniteSets, TLC

VARIABLES
    \* ---- snapshot aggregator (aggregate_snapshots) ----
    aPc,            \* "loop": between snapshots, "snap": inside one, "done", "raised"
    new_regions,    \* aggregate_snapshots' accumulator list
    nr_acc_to_add,  \* the per-snapshot dict: accumulator index -> deferred increment
    aCur,           \* the regions of the current input snapshot handed to add_region so far
    aFirst,         \* snapshots[0]'s header  (<<>> while the input list is empty)
    aLast,          \* snapshots[-1]'s header (<<>> while the input list is empty)
    aNrSnaps,       \* number of input snapshots seen
    aNrRegions,     \* number of input regions seen
    aBorn,          \* per accumulator region: the snapshot that appended it and its count then
    aExpect,        \* per accumulator region: the count the aggregation rule predicts
    aDisjoint,      \* every input snapshot so far had pairwise disjoint regions
    aNonEmpty,      \* every input region so far had start < end
    aInputUnion,    \* the addresses covered by the input regions so far
    aMutated,       \* some input region object had a field changed by the aggregator
    aRet,           \* the returned snapshot (<<>> before the return)
    \* ---- schemes and access patterns (Damos, DamosAccessPattern) ----
    scheme,         \* a Damos object
    intervals,      \* the DamonIntervals the conversions are made under
    sLineage,       \* "default": Damos(), renamed or converted towards
                    \* sample_intervals / aggr_intervals only; else "other"
    pRet,           \* the last call on the scheme or its pattern and what it returned
    \* ---- record codec (write_damon_record, record_to_damon_result) ----
    cPc,            \* "made": a result is in memory, "written", "decoded", "parsed";
                    \* "stream": a stream is being decoded call by call
    mres,           \* the DAMONResult in memory, which write_damon_result changes
    corig,          \* mres as it was made
    cOp,            \* the function that wrote the file
    wver,           \* the format version of the file
    wExc,           \* the exception the writer raised ("" for none)
    rfile,          \* the bytes of the file
    fh,             \* the stream handle and format version the caller holds
    dRet,           \* what the last call of the decoder returned
    sCall,          \* the last call on the stream: where it started, and its max_secs
    sRecs,          \* where the records of the stream start and end, and their times
    \* ---- configuration tree (to_kvpairs, kvpairs_to_*) ----
    tPc,            \* "made": an object is there, "kv", "back", "compared"
    tKind,          \* the class of the object
    tObj,           \* the object x
    tRaw,           \* the raw argument of to_kvpairs
    tKv,            \* x.to_kvpairs(raw)
    tBack,          \* the object the inverse constructor returned
    tExc,           \* the exception it raised instead ("" for none)
    tEq,            \* back == x
    \* ---- objects of schemes (Damos.__init__) ----
    hObjs,          \* the heap: the objects made so far
    hSchemes,       \* the schemes built, their four objects by reference
    hNew,           \* the scheme Damos() returned last, as it was returned
    \* ---- damo schemes (damo_schemes.py: main, cleanup_exit) ----
    mPc,            \* where the program is: "turn_on", "names", "wait" in main;
                    \* "cleanup", "turn_off", "wait_off", "apply", "exit" in
                    \* cleanup_exit; "exited"
    kdamonds_names, \* the global kdamonds_names
    kdamonds_names_to_turn_off,  \* the list of cleanup_exit
    kRunning,       \* the kdamonds that are running
    kTurnedOn,      \* the kdamonds that this run has turned on
    nApplied,       \* how many times apply_kdamonds(orig_kdamonds) was called
    kApplied,       \* the kdamonds that were running at such a call
    sigAt,          \* where the program was when a signal was delivered
    nSignals        \* the signals delivered

aggrVars == <<aPc, new_regions, nr_acc_to_add, aCur, aFirst, aLast, aNrSnaps,
              aNrRegions, aBorn, aExpect, aDisjoint, aNonEmpty, aInputUnion, aMutated,
              aRet>>

patVars == <<scheme, intervals, sLineage, pRet>>

codecVars == <<cPc, mres, corig, cOp, wver, wExc, rfile, fh, dRet, sCall, sRecs>>

cfgVars == <<tPc, tKind, tObj, tRaw, tKv, tBack, tExc, tEq>>

heapVars == <<hObjs, hSchemes, hNew>>

runVars == <<mPc, kdamonds_names, kdamonds_names_to_turn_off, kRunning, kTurnedOn,
             nApplied, kApplied, sigAt, nSignals>>

vars == <<aggrVars, patVars, codecVars, cfgVars, heapVars, runVars>>

\* What the actions of one part leave unchanged
aggrOthers == <<patVars, codecVars, cfgVars, heapVars, runVars>>
patOthers == <<aggrVars, codecVars, cfgVars, heapVars, runVars>>
codecOthers == <<aggrVars, patVars, cfgVars, heapVars, runVars>>
cfgOthers == <<aggrVars, patVars, codecVars, heapVars, runVars>>
heapOthers == <<aggrVars, patVars, codecVars, cfgVars, runVars>>
runOthers == <<aggrVars, patVars, codecVars, cfgVars, heapVars>>

(***************************************************************************)
(* Small helpers                                                           *)
(***************************************************************************)
Max2(a, b) == IF a >= b THEN a ELSE b

MinOf(S) == CHOOSE x \in S : \A y \in S : x <= y

MaxOf(S) == CHOOSE x \in S : \A y \in S : x >= y

Digit == <<"0", "1", "2", "3", "4", "5", "6", "7", "8", "9">>

RECURSIVE Decimal(_)
\* '%d' % n for n >= 0
Decimal(n) ==
    IF n < 10 THEN <<Digit[n + 1]>>
    ELSE Decimal(n \div 10) \o <<Digit[(n % 10) + 1]>>

RECURSIVE Grouped(_)
\* '{:,}'.format(n), from the digits of n
Grouped(ds) ==
    IF Len(ds) <= 3 THEN ds
    ELSE Grouped(SubSeq(ds, 1, Len(ds) - 3)) \o <<",">>
         \o SubSeq(ds, Len(ds) - 2, Len(ds))

IsDigit(c) == \E i \in 1..10 : Digit[i] = c

DigitValue(c) == (CHOOSE i \in 1..10 : Digit[i] = c) - 1

RECURSIVE DigitsValue(_)
DigitsValue(ds) ==
    IF ds = <<>> THEN 0
    ELSE 10 * DigitsValue(SubSeq(ds, 1, Len(ds) - 1)) + DigitValue(ds[Len(ds)])

\* The addresses of the half-open range [start, end)
Range(r) == r.start .. (r.end - 1)

RECURSIVE UnionOfRanges(_)
UnionOfRanges(rs) ==
    IF rs = <<>> THEN {}
    ELSE Range(Head(rs)) \cup UnionOfRanges(Tail(rs))

(***************************************************************************)
(* Bounds of the aggregator's inputs                                       *)
(***************************************************************************)
MaxAggrSnapshots == 2    \* input snapshots per aggregate_snapshots call
MaxAggrRegions == 3      \* input regions per call, over all snapshots

\* The address ranges [start, end) of input regions, over the addresses
\* 0 .. 3: nested, adjacent and partly overlapping ranges, and an empty one.
AggrRanges == {<<0, 1>>, <<0, 2>>, <<0, 3>>, <<1, 2>>, <<1, 3>>, <<1, 1>>}
AggrAccesses == {1, 2}   \* access counts of input regions
AggrTargets == {1, 2}    \* target id of the input snapshots

(***************************************************************************)
(* _damon_result.py: DAMONRegion, DAMONSnapshot                            *)
(***************************************************************************)
\* `input` tells a region object of the caller's snapshots from one the
\* aggregator built itself (objects are compared by identity in the dict).
DAMONRegion(start, end, nr_accesses, age) ==
    [start |-> start, end |-> end, nr_accesses |-> nr_accesses, age |-> age,
     input |-> FALSE]

DAMONSnapshot(start_time, end_time, target_id) ==
    [start_time |-> start_time, end_time |-> end_time, target_id |-> target_id,
     regions |-> <<>>]

NoAge == -2   \* Python's None in the age field (the binary format has no age)

(***************************************************************************)
(* _damon_result.py: regions_intersect, add_region                         *)
(***************************************************************************)
regions_intersect(r1, r2) == ~(r1.end <= r2.start \/ r2.end <= r1.start)

\* nr_acc_to_add[r] = max(nr_acc_to_add[r], region.nr_accesses)
PendingUpdateSum(cur, nr) == cur + nr

PendingUpdate(cur, nr) == Max2(cur, nr)

\* if region.start < r.start: new_regions.append(DAMONRegion(region.start, r.start, ...))
LeftRemainderDropped(region, r) == <<>>

LeftRemainder(region, r) ==
    IF region.start < r.start
    THEN <<DAMONRegion(region.start, r.start, region.nr_accesses, region.age)>>
    ELSE <<>>

\* if r.end < region.end: new_regions.append(DAMONRegion(r.end, region.end, ...))
RightRemainder(region, r) ==
    IF r.end < region.end
    THEN <<DAMONRegion(r.end, region.end, region.nr_accesses, region.age)>>
    ELSE <<>>

\* for r in regions: if regions_intersect(r, region): ...  (the first such r; 0 if none)
FirstIntersecting(regions, region) ==
    LET S == {i \in 1 .. Len(regions) : regions_intersect(regions[i], region)}
    IN  IF S = {} THEN 0 ELSE MinOf(S)

\* add_region(regions, region, nr_acc_to_add): the list and the dict after the call
RECURSIVE add_region(_, _, _)
add_region(regions, region, toAdd) ==
    LET i == FirstIntersecting(regions, region) IN
    IF i = 0
    THEN [regions |-> Append(regions, region), toAdd |-> toAdd]
    ELSE
        LET r == regions[i]
            cur == IF i \in DOMAIN toAdd THEN toAdd[i] ELSE 0
            toAdd1 == [k \in (DOMAIN toAdd) \cup {i} |->
                          IF k = i THEN PendingUpdate(cur, region.nr_accesses)
                          ELSE toAdd[k]]
            pieces == LeftRemainder(region, r) \o RightRemainder(region, r)
            st0 == [regions |-> regions, toAdd |-> toAdd1]
            st1 == IF Len(pieces) >= 1
                   THEN add_region(st0.regions, pieces[1], st0.toAdd) ELSE st0
            st2 == IF Len(pieces) >= 2
                   THEN add_region(st1.regions, pieces[2], st1.toAdd) ELSE st1
        IN  st2

(***************************************************************************)
(* _damon_result.py: aggregate_snapshots, one action per step of its loops *)
(***************************************************************************)
EmptyDict == [k \in {} |-> 0]

AggrInit ==
    /\ aPc = "loop"
    /\ new_regions = <<>>
    /\ nr_acc_to_add = EmptyDict
    /\ aCur = <<>>
    /\ aFirst = <<>>
    /\ aLast = <<>>
    /\ aNrSnaps = 0
    /\ aNrRegions = 0
    /\ aBorn = <<>>
    /\ aExpect = <<>>
    /\ aDisjoint = TRUE
    /\ aNonEmpty = TRUE
    /\ aInputUnion = {}
    /\ aMutated = FALSE
    /\ aRet = <<>>

\* for snapshot in snapshots: nr_acc_to_add = {}
AggrNextSnapshot ==
    /\ aPc = "loop"
    /\ aNrSnaps < MaxAggrSnapshots
    /\ \E tid \in (IF aNrSnaps = 0 THEN AggrTargets ELSE {aFirst.target_id}) :
          \* snapshot k of the list spans the times [k - 1, k)
          LET hdr == [start_time |-> aNrSnaps, end_time |-> aNrSnaps + 1,
                      target_id |-> tid]
          IN  /\ aFirst' = IF aNrSnaps = 0 THEN hdr ELSE aFirst
              /\ aLast' = hdr
    /\ aNrSnaps' = aNrSnaps + 1
    /\ nr_acc_to_add' = EmptyDict
    /\ aCur' = <<>>
    /\ aPc' = "snap"
    /\ UNCHANGED <<new_regions, aNrRegions, aBorn, aExpect, aDisjoint, aNonEmpty,
                   aInputUnion, aMutated, aRet>>
    /\ UNCHANGED aggrOthers

\* for region in snapshot.regions: add_region(new_regions, region, nr_acc_to_add)
AggrAddRegion ==
    /\ aPc = "snap"
    /\ aNrRegions < MaxAggrRegions
    /\ \E rg \in AggrRanges, n \in AggrAccesses :
          /\ LET region == [DAMONRegion(rg[1], rg[2], n, NoAge) EXCEPT !.input = TRUE]
                 st == add_region(new_regions, region, nr_acc_to_add)
                 grown == Len(st.regions) - Len(new_regions)
             IN  /\ new_regions' = st.regions
                 /\ nr_acc_to_add' = st.toAdd
                 /\ aBorn' = aBorn \o
                        [k \in 1 .. grown |->
                            [snap |-> aNrSnaps,
                             start |-> st.regions[Len(new_regions) + k].start,
                             end |-> st.regions[Len(new_regions) + k].end,
                             nr |-> st.regions[Len(new_regions) + k].nr_accesses]]
                 /\ aExpect' = aExpect \o
                        [k \in 1 .. grown |->
                            st.regions[Len(new_regions) + k].nr_accesses]
                 /\ aDisjoint' = (aDisjoint /\
                        \A k \in 1 .. Len(aCur) : ~regions_intersect(aCur[k], region))
                 /\ aNonEmpty' = (aNonEmpty /\ region.start < region.end)
                 /\ aCur' = Append(aCur, region)
                 /\ aInputUnion' = aInputUnion \cup Range(region)
    /\ aNrRegions' = aNrRegions + 1
    /\ UNCHANGED <<aPc, aFirst, aLast, aNrSnaps, aMutated, aRet>>
    /\ UNCHANGED aggrOthers

\* The increment the aggregation rule gives accumulator region a for one
\* input snapshot: the maximum count of the snapshot's regions overlapping it.
RuleIncrement(a, regions) ==
    LET S == {regions[k].nr_accesses : k \in {j \in 1 .. Len(regions) :
                                               regions_intersect(a, regions[j])}}
    IN  IF S = {} THEN 0 ELSE MaxOf(S)

\* for region in nr_acc_to_add: region.nr_accesses += nr_acc_to_add[region]
ApplyPending(regions, toAdd) ==
    [i \in 1 .. Len(regions) |->
        IF i \in DOMAIN toAdd
        THEN [regions[i] EXCEPT !.nr_accesses = regions[i].nr_accesses + toAdd[i]]
        ELSE regions[i]]

AggrApply ==
    /\ aPc = "snap"
    /\ new_regions' = ApplyPending(new_regions, nr_acc_to_add)
    /\ aMutated' = (aMutated \/
            \E i \in DOMAIN nr_acc_to_add :
                new_regions[i].input /\ nr_acc_to_add[i] # 0)
    /\ aExpect' = [i \in 1 .. Len(aExpect) |->
            IF aBorn[i].snap < aNrSnaps
            THEN aExpect[i] + RuleIncrement(new_regions[i], aCur)
            ELSE aExpect[i]]
    /\ aPc' = "loop"
    /\ UNCHANGED <<nr_acc_to_add, aCur, aFirst, aLast, aNrSnaps, aNrRegions, aBorn,
                   aDisjoint, aNonEmpty, aInputUnion, aRet>>
    /\ UNCHANGED aggrOthers

\* new_snapshot = DAMONSnapshot(snapshots[0].start_time, snapshots[-1].end_time,
\*                              snapshots[0].target_id)
\* snapshots[0] of an empty list raises IndexError.
AggrReturn ==
    /\ aPc = "loop"
    /\ IF aNrSnaps = 0
       THEN /\ aPc' = "raised"
            /\ aRet' = <<>>
       ELSE /\ aPc' = "done"
            /\ aRet' = [DAMONSnapshot(aFirst.start_time, aLast.end_time,
                                      aFirst.target_id)
                        EXCEPT !.regions = new_regions]
    /\ UNCHANGED <<new_regions, nr_acc_to_add, aCur, aFirst, aLast, aNrSnaps,
                   aNrRegions, aBorn, aExpect, aDisjoint, aNonEmpty, aInputUnion,
                   aMutated>>
    /\ UNCHANGED aggrOthers

AggrNext ==
    \/ AggrNextSnapshot
    \/ AggrAddRegion
    \/ AggrApply
    \/ AggrReturn

(***************************************************************************)
(* aggregate_snapshots as a function of the region lists of its snapshots  *)
(***************************************************************************)
RECURSIVE AddRegions(_, _, _)
AddRegions(regions, toAdd, input) ==
    IF input = <<>> THEN [regions |-> regions, toAdd |-> toAdd]
    ELSE LET st == add_region(regions, Head(input), toAdd)
         IN  AddRegions(st.regions, st.toAdd, Tail(input))

RECURSIVE AggregateRegions(_, _)
AggregateRegions(regions, snapshots) ==
    IF snapshots = <<>> THEN regions
    ELSE LET st == AddRegions(regions, EmptyDict, Head(snapshots))
         IN  AggregateRegions(ApplyPending(st.regions, st.toAdd), Tail(snapshots))

\* The example of aggregate_snapshots' comment and of the specification:
\* A = {[0,10):5}, B = {[0,5):2, [5,10):4}.
ExampleA == <<DAMONRegion(0, 10, 5, NoAge)>>
ExampleB == <<DAMONRegion(0, 5, 2, NoAge), DAMONRegion(5, 10, 4, NoAge)>>

(***************************************************************************)
(* Claims about the aggregator                                             *)
(***************************************************************************)
AggrAtBoundary == aPc \in {"loop", "done"}

\* The count rule on the current state, for the inputs selected by `domain`.
CountRuleHolds(domain) ==
    /\ (domain /\ AggrAtBoundary) =>
           /\ Len(aExpect) = Len(new_regions)
           /\ \A i \in 1 .. Len(new_regions) :
                  new_regions[i].nr_accesses = aExpect[i]
    /\ (domain /\ aPc = "done") =>
           \A i \in 1 .. Len(aRet.regions) : aRet.regions[i].nr_accesses = aExpect[i]

\* C8 (as claimed): when the regions of every input snapshot are pairwise
\* disjoint, each accumulator region's access count is the count it was
\* appended with plus, for each later snapshot, the maximum (not the sum) of
\* the counts of that snapshot's regions overlapping it, each snapshot's
\* increment applied once after the snapshot's regions were inserted.
C8_Original_CountRuleForDisjointSnapshots == CountRuleHolds(aDisjoint)

\* C8 (amended): the same for input regions that are all non-empty
\* (start < end) and pairwise disjoint within each snapshot; and
\* A = {[0,10):5}, B = {[0,5):2, [5,10):4} aggregate to the single region
\* [0,10) with count 9.
C8_AggregationCountRule ==
    /\ CountRuleHolds(aDisjoint /\ aNonEmpty)
    /\ aNrSnaps = 0 =>
          AggregateRegions(<<>>, <<ExampleA, ExampleB>>) = <<DAMONRegion(0, 10, 9, NoAge)>>

\* An accumulator region that two regions of one later snapshot overlap, with
\* different counts, after that snapshot's increment was applied.
C8_Witness ==
    /\ aPc = "done"
    /\ aDisjoint
    /\ aNonEmpty
    /\ aNrSnaps = 2
    /\ \E i \in 1 .. Len(new_regions) :
          /\ aBorn[i].snap = 1
          /\ \E j, k \in 1 .. Len(aCur) :
                /\ j # k
                /\ regions_intersect(new_regions[i], aCur[j])
                /\ regions_intersect(new_regions[i], aCur[k])
                /\ aCur[j].nr_accesses # aCur[k].nr_accesses
          /\ new_regions[i].nr_accesses = aBorn[i].nr + 2

\* C9: after every add_region call the accumulator's regions are pairwise
\* non-overlapping (a.start < r.end and r.start < a.end), a region once in the
\* accumulator keeps its place and its address range, and the result covers
\* exactly the addresses the input regions cover; the inputs may overlap
\* within a snapshot.
C9_AggregationGeometry ==
    /\ \A i, j \in 1 .. Len(new_regions) :
          i # j => ~(/\ new_regions[i].start < new_regions[j].end
                    /\ new_regions[j].start < new_regions[i].end)
    /\ Len(new_regions) = Len(aBorn)
    /\ \A i \in 1 .. Len(new_regions) :
          /\ new_regions[i].start = aBorn[i].start
          /\ new_regions[i].end = aBorn[i].end
    /\ UnionOfRanges(new_regions) = aInputUnion
    /\ aPc = "done" => UnionOfRanges(aRet.regions) = aInputUnion

\* A finished aggregation of a snapshot whose own regions overlap, in which
\* an input region was cut into two remainders around an accumulator region.
C9_Witness ==
    /\ aPc = "done"
    /\ ~aDisjoint
    /\ aNrRegions = 2
    /\ Len(new_regions) = 3

\* C10: aggregate_snapshots never fails, the empty list included, and returns
\* a snapshot with the first input's start time and target id and the last
\* input's end time.
C10_AggregationNeverFails ==
    /\ aPc # "raised"
    /\ aPc = "done" =>
          /\ aRet.start_time = aFirst.start_time
          /\ aRet.end_time = aLast.end_time
          /\ aRet.target_id = aFirst.target_id


(***************************************************************************)
(* _damon.py: DamonIntervals, DamosAccessPattern, Damos                    *)
(*                                                                         *)
(* A raised exception is a value: an operation returns a record whose      *)
(* field exc is "" when nothing was raised.                                *)
(*                                                                         *)
(* Python's integers are unbounded and its floats are doubles.  The model  *)
(* checker's integers have 32 bits, so the two magnitudes that matter are  *)
(* scaled by the same factor 2^-44: the largest unsigned long 2^64 - 1     *)
(* becomes 2^20 - 1, and 2^53, up to which every integer is a double,      *)
(* becomes 2^9.  All other values of the model are small numbers.          *)
(***************************************************************************)
unit_percent == "percent"
unit_sample_intervals == "sample_intervals"
unit_usec == "usec"
unit_aggr_intervals == "aggr_intervals"

NrAccessesUnits == {unit_percent, unit_sample_intervals}
AgeUnits == {unit_usec, unit_aggr_intervals}

\* text_to_bytes('max'), text_to_us('max'), text_to_ms('max'), text_to_nr('max')
ulong_max == 1048575

\* text_to_percent('max')
percent_max == 100

\* Integers below this bound are doubles; a double holds this many
\* significant steps.
DoublePrecision == 512

RECURSIVE DoubleUlp(_, _)
\* The spacing of the doubles around x >= 0
DoubleUlp(x, ulp) ==
    IF x < DoublePrecision * ulp THEN ulp ELSE DoubleUlp(x, 2 * ulp)

\* int(a / b) for integers a >= 0 and b > 0: the true quotient rounded to the
\* nearest double (ties to even), then truncated
IntOfTrueDiv(a, b) ==
    LET floor == a \div b
        ulp == DoubleUlp(floor, 1)
        low == (a \div (b * ulp)) * ulp
        twice == 2 * (a - low * b)
    IN  IF ulp = 1 THEN floor
        ELSE IF twice < b * ulp THEN low
        ELSE IF twice > b * ulp THEN low + ulp
        ELSE IF (low \div ulp) % 2 = 0 THEN low ELSE low + ulp

DamonIntervals(sample, aggr, ops_update) ==
    [sample |-> sample, aggr |-> aggr, ops_update |-> ops_update]

\* DamosAccessPattern.__init__ for numbers and the two unit sets
DamosAccessPattern(sz_bytes, nr_accesses, nr_accesses_unit, age, age_unit) ==
    [min_sz_bytes |-> sz_bytes[1], max_sz_bytes |-> sz_bytes[2],
     min_nr_accesses |-> nr_accesses[1], max_nr_accesses |-> nr_accesses[2],
     nr_accesses_unit |-> nr_accesses_unit,
     min_age |-> age[1], max_age |-> age[2], age_unit |-> age_unit]

\* DamosAccessPattern(): sz ['min', 'max'], nr_accesses ['min', 'max'] in
\* percent, age ['min', 'max'] in usec
DefaultAccessPattern ==
    DamosAccessPattern(<<0, ulong_max>>, <<0, percent_max>>, unit_percent,
                       <<0, ulong_max>>, unit_usec)

\* DamosAccessPattern.__eq__
AccessPatternEq(self, other) ==
    /\ self.min_sz_bytes = other.min_sz_bytes
    /\ self.max_sz_bytes = other.max_sz_bytes
    /\ self.min_nr_accesses = other.min_nr_accesses
    /\ self.max_nr_accesses = other.max_nr_accesses
    /\ self.nr_accesses_unit = other.nr_accesses_unit
    /\ self.min_age = other.min_age
    /\ self.max_age = other.max_age
    /\ self.age_unit = other.age_unit

Returned(pat) == [pat |-> pat, exc |-> ""]
Raised(pat, exc) == [pat |-> pat, exc |-> exc]

\* percent to sample_intervals:
\*   int(v * max_nr_accesses_sample_intervals / 100)
\* with max_nr_accesses_sample_intervals = aggr / sample.  The interval sets
\* of the model have an integral aggr / sample, for which the double
\* arithmetic on the model's small values gives the floor of the quotient.
PercentToSampleIntervals(v, ivl) == (v * ivl.aggr) \div (ivl.sample * 100)

\* sample_intervals to percent:
\*   int(v * 100.0 / max_nr_accesses_sample_intervals)
SampleIntervalsToPercent(v, ivl) == (v * 100 * ivl.sample) \div ivl.aggr

\* DamosAccessPattern.convert_nr_accesses_unit: self afterwards
convert_nr_accesses_unit(self, nr_accesses_unit, ivl) ==
    IF self.nr_accesses_unit = nr_accesses_unit THEN Returned(self)
    \* max_nr_accesses_sample_intervals = intervals.aggr / intervals.sample
    ELSE IF ivl.sample = 0 THEN Raised(self, "ZeroDivisionError")
    ELSE IF nr_accesses_unit = unit_sample_intervals
    THEN Returned([self EXCEPT
            !.min_nr_accesses = PercentToSampleIntervals(@, ivl),
            !.max_nr_accesses = PercentToSampleIntervals(@, ivl),
            !.nr_accesses_unit = nr_accesses_unit])
    \* ... / max_nr_accesses_sample_intervals, which is 0.0
    ELSE IF ivl.aggr = 0 THEN Raised(self, "ZeroDivisionError")
    ELSE Returned([self EXCEPT
            !.min_nr_accesses = SampleIntervalsToPercent(@, ivl),
            !.max_nr_accesses = SampleIntervalsToPercent(@, ivl),
            !.nr_accesses_unit = nr_accesses_unit])

AgeToUsecBySample(age, ivl) == age * ivl.sample

\* aggr_intervals to usec: self.min_age * intervals.aggr
AgeToUsec(age, ivl) == age * ivl.aggr

\* usec to aggr_intervals: int(self.min_age / intervals.aggr)
AgeToAggrIntervals(age, ivl) == IntOfTrueDiv(age, ivl.aggr)

\* DamosAccessPattern.convert_age_unit: self afterwards
convert_age_unit(self, age_unit, ivl) ==
    IF self.age_unit = age_unit THEN Returned(self)
    ELSE IF age_unit = unit_usec
    THEN Returned([self EXCEPT
            !.min_age = AgeToUsec(@, ivl),
            !.max_age = AgeToUsec(@, ivl),
            !.age_unit = age_unit])
    ELSE IF ivl.aggr = 0 THEN Raised(self, "ZeroDivisionError")
    ELSE Returned([self EXCEPT
            !.min_age = AgeToAggrIntervals(@, ivl),
            !.max_age = AgeToAggrIntervals(@, ivl),
            !.age_unit = age_unit])

\* DamosAccessPattern.convert_for_units: self afterwards; when the second
\* conversion raises, the first one has been made.
convert_for_units(self, nr_accesses_unit, age_unit, ivl) ==
    LET first == convert_nr_accesses_unit(self, nr_accesses_unit, ivl)
    IN  IF first.exc # "" THEN first
        ELSE convert_age_unit(first.pat, age_unit, ivl)

\* DamosAccessPattern.converted_for_units: the converted copy, or the
\* exception of the conversion
converted_for_units(self, nr_accesses_unit, age_unit, ivl) ==
    convert_for_units(self, nr_accesses_unit, age_unit, ivl)

Value(val) == [val |-> val, exc |-> ""]
NoValue(exc) == [val |-> FALSE, exc |-> exc]

\* DamosAccessPattern.effectively_equal
PatternEffectivelyEqual(self, other, ivl) ==
    LET a == converted_for_units(self, unit_sample_intervals,
                                 unit_aggr_intervals, ivl)
        b == converted_for_units(other, unit_sample_intervals,
                                 unit_aggr_intervals, ivl)
    IN  IF a.exc # "" THEN NoValue(a.exc)
        ELSE IF b.exc # "" THEN NoValue(b.exc)
        ELSE Value(AccessPatternEq(a.pat, b.pat))

damos_action_pageout == "pageout"
damos_action_stat == "stat"
damos_wmarks_metric_none == "none"
damos_wmarks_metric_free_mem_rate == "free_mem_rate"

DamosQuotas(time_ms, sz_bytes, reset_interval_ms, weight_sz, weight_nr_accesses, weight_age) ==
    [time_ms |-> time_ms, sz_bytes |-> sz_bytes,
     reset_interval_ms |-> reset_interval_ms,
     weight_sz_permil |-> weight_sz,
     weight_nr_accesses_permil |-> weight_nr_accesses,
     weight_age_permil |-> weight_age]

\* DamosQuotas(): 0, 0, 'max', '0 %', '0 %', '0 %'
DefaultQuotas == DamosQuotas(0, 0, ulong_max, 0, 0, 0)

DamosWatermarks(metric, interval_us, high, mid, low) ==
    [metric |-> metric, interval_us |-> interval_us, high_permil |-> high,
     mid_permil |-> mid, low_permil |-> low]

\* DamosWatermarks(): 'none', 0, '0 %', '0 %', '0 %'
DefaultWatermarks == DamosWatermarks(damos_wmarks_metric_none, 0, 0, 0, 0)

\* None, for a field that holds None or one value
NoneValue == <<>>

Damos(name, access_pattern, action, quotas, watermarks, filters, stats, tried_regions) ==
    [name |-> name, access_pattern |-> access_pattern, action |-> action,
     quotas |-> quotas, watermarks |-> watermarks, filters |-> filters,
     stats |-> stats, tried_regions |-> tried_regions]

\* Damos()
DefaultDamos ==
    Damos("0", DefaultAccessPattern, damos_action_stat, DefaultQuotas,
          DefaultWatermarks, <<>>, NoneValue, NoneValue)

\* DamosFilter.to_str and DamosFilter.__eq__: the text leaves the name out,
\* and the memcg path unless the type is memcg
DamosFilterToStr(f) ==
    <<"filter_type ", f.filter_type, ", ">>
    \o (IF f.filter_type = "memcg" THEN <<"memcg_path ", f.memcg_path, ", ">>
        ELSE <<>>)
    \o <<"matching ", IF f.matching THEN "True" ELSE "False">>

DamosFilterEq(self, other) == DamosFilterToStr(self) = DamosFilterToStr(other)

\* list equality of filters
FiltersEq(fs, gs) ==
    /\ Len(fs) = Len(gs)
    /\ \A i \in 1..Len(fs) : DamosFilterEq(fs[i], gs[i])

\* DamosQuotas.__eq__
DamosQuotas_eq(self, other) ==
    /\ self.time_ms = other.time_ms
    /\ self.sz_bytes = other.sz_bytes
    /\ self.reset_interval_ms = other.reset_interval_ms
    /\ self.weight_sz_permil = other.weight_sz_permil
    /\ self.weight_nr_accesses_permil = other.weight_nr_accesses_permil
    /\ self.weight_age_permil = other.weight_age_permil

\* DamosWatermarks.__eq__
DamosWatermarks_eq(self, other) ==
    /\ self.metric = other.metric
    /\ self.interval_us = other.interval_us
    /\ self.high_permil = other.high_permil
    /\ self.mid_permil = other.mid_permil
    /\ self.low_permil = other.low_permil

\* Damos.__eq__: the name and the five parts; stats and tried_regions are not
\* compared
Damos_eq(self, other) ==
    /\ self.name = other.name
    /\ AccessPatternEq(self.access_pattern, other.access_pattern)
    /\ self.action = other.action
    /\ DamosQuotas_eq(self.quotas, other.quotas)
    /\ DamosWatermarks_eq(self.watermarks, other.watermarks)
    /\ FiltersEq(self.filters, other.filters)

\* Damos.effectively_equal
DamosEffectivelyEqual(self, other, ivl) ==
    LET pe == PatternEffectivelyEqual(self.access_pattern,
                                      other.access_pattern, ivl)
    IN  IF pe.exc # "" THEN pe
        ELSE Value(/\ pe.val
                   /\ self.action = other.action
                   /\ self.quotas = other.quotas
                   /\ self.watermarks = other.watermarks
                   /\ FiltersEq(self.filters, other.filters))

\* is_monitoring_scheme
is_monitoring_scheme(sch, ivl) == DamosEffectivelyEqual(DefaultDamos, sch, ivl)

(***************************************************************************)
(* A scheme under an interval set: the scheme is renamed, its pattern is   *)
(* converted in place, and the two queries are made.                       *)
(***************************************************************************)
PatSamples == {0, 1, 3}
PatAggrs == {0, 3, 30}
PatOpsUpdates == {100}
PatNrAccesses == {<<0, 100>>, <<1, 3>>, <<3, 100>>}
PatAges == {<<0, ulong_max>>, <<2, 7>>, <<7, 90>>}
PatNames == {"0", "foo"}

PatIntervals ==
    {DamonIntervals(s, a, o) : s \in PatSamples, a \in PatAggrs,
                               o \in PatOpsUpdates}

PatPatterns ==
    {DamosAccessPattern(<<0, ulong_max>>, n, nu, a, au) :
        n \in PatNrAccesses, nu \in NrAccessesUnits,
        a \in PatAges, au \in AgeUnits}

NoCall == [op |-> "none"]

\* The state of the scheme part while another part runs
PatIdle ==
    /\ scheme = DefaultDamos
    /\ intervals = DamonIntervals(1, 3, 0)
    /\ sLineage = "default"
    /\ pRet = NoCall

PatInit ==
    /\ intervals \in PatIntervals
    /\ \E p \in PatPatterns, act \in {damos_action_stat, damos_action_pageout} :
          scheme = Damos("0", p, act, DefaultQuotas, DefaultWatermarks, <<>>,
                         NoneValue, NoneValue)
    \* sLineage: "default" while the scheme is Damos(), renamed or not, with
    \* its pattern converted only to sample_intervals or aggr_intervals
    /\ sLineage = IF scheme = DefaultDamos THEN "default" ELSE "other"
    /\ pRet = NoCall

\* scheme.name = name
PatRename ==
    /\ \E name \in PatNames : scheme' = [scheme EXCEPT !.name = name]
    /\ pRet' = NoCall
    /\ UNCHANGED <<intervals, sLineage>>
    /\ UNCHANGED patOthers

LineageAfter(before, after) ==
    IF /\ sLineage = "default"
       /\ before.nr_accesses_unit # after.nr_accesses_unit
             => after.nr_accesses_unit = unit_sample_intervals
       /\ before.age_unit # after.age_unit
             => after.age_unit = unit_aggr_intervals
    THEN "default" ELSE "other"

\* scheme.access_pattern.convert_nr_accesses_unit(u, intervals)
PatConvertNrAccessesUnit ==
    /\ \E u \in NrAccessesUnits :
          LET r == convert_nr_accesses_unit(scheme.access_pattern, u, intervals)
          IN  /\ scheme' = [scheme EXCEPT !.access_pattern = r.pat]
              /\ sLineage' = LineageAfter(scheme.access_pattern, r.pat)
              /\ pRet' = [op |-> "convert_nr_accesses_unit", exc |-> r.exc,
                           before |-> scheme.access_pattern, u1 |-> u,
                           u2 |-> scheme.access_pattern.age_unit]
    /\ UNCHANGED intervals
    /\ UNCHANGED patOthers

\* scheme.access_pattern.convert_age_unit(u, intervals)
PatConvertAgeUnit ==
    /\ \E u \in AgeUnits :
          LET r == convert_age_unit(scheme.access_pattern, u, intervals)
          IN  /\ scheme' = [scheme EXCEPT !.access_pattern = r.pat]
              /\ sLineage' = LineageAfter(scheme.access_pattern, r.pat)
              /\ pRet' = [op |-> "convert_age_unit", exc |-> r.exc,
                           before |-> scheme.access_pattern,
                           u1 |-> scheme.access_pattern.nr_accesses_unit,
                           u2 |-> u]
    /\ UNCHANGED intervals
    /\ UNCHANGED patOthers

\* scheme.access_pattern.convert_for_units(u1, u2, intervals)
PatConvertForUnits ==
    /\ \E u1 \in NrAccessesUnits, u2 \in AgeUnits :
          LET r == convert_for_units(scheme.access_pattern, u1, u2, intervals)
          IN  /\ scheme' = [scheme EXCEPT !.access_pattern = r.pat]
              /\ sLineage' = LineageAfter(scheme.access_pattern, r.pat)
              /\ pRet' = [op |-> "convert_for_units", exc |-> r.exc,
                           before |-> scheme.access_pattern, u1 |-> u1,
                           u2 |-> u2]
    /\ UNCHANGED intervals
    /\ UNCHANGED patOthers

\* scheme.access_pattern.converted_for_units(u1, u2, intervals): the copy is
\* converted and returned, the scheme's pattern stays
PatCallConvertedForUnits ==
    /\ \E u1 \in NrAccessesUnits, u2 \in AgeUnits :
          LET r == converted_for_units(scheme.access_pattern, u1, u2, intervals)
          IN  pRet' = [op |-> "converted_for_units", exc |-> r.exc,
                       before |-> scheme.access_pattern, u1 |-> u1, u2 |-> u2,
                       pat |-> r.pat]
    /\ UNCHANGED <<scheme, intervals, sLineage>>
    /\ UNCHANGED patOthers

\* p.effectively_equal(p.converted_for_units(u1, u2, intervals), intervals)
\* for the scheme's pattern p
EffectiveEqualityLaw(p, u1, u2, ivl) ==
    LET c == converted_for_units(p, u1, u2, ivl)
    IN  IF c.exc # "" THEN NoValue(c.exc)
        ELSE PatternEffectivelyEqual(p, c.pat, ivl)

PatCallLaw ==
    /\ \E u1 \in NrAccessesUnits, u2 \in AgeUnits :
          LET r == EffectiveEqualityLaw(scheme.access_pattern, u1, u2, intervals)
          IN  pRet' = [op |-> "law", p |-> scheme.access_pattern, u1 |-> u1,
                       u2 |-> u2, val |-> r.val, exc |-> r.exc]
    /\ UNCHANGED <<scheme, intervals, sLineage>>
    /\ UNCHANGED patOthers

\* The statistics and the filter of the schemes the scheme is compared with
PatStats ==
    [nr_tried |-> 3, sz_tried |-> 4096, nr_applied |-> 1, sz_applied |-> 1024,
     qt_exceeds |-> 0]

PatFilter ==
    [name |-> "0", filter_type |-> "anon", memcg_path |-> "", matching |-> TRUE]

\* The schemes the scheme is compared with: itself, with another name and
\* with statistics, with one other part changed, and with its pattern
\* converted to either pure unit pair or changed in its counts
PatOtherSchemes(s, ivl) ==
    LET p == s.access_pattern
        base == converted_for_units(p, unit_sample_intervals,
                                    unit_aggr_intervals, ivl).pat
        human == converted_for_units(p, unit_percent, unit_usec, ivl).pat
    IN  {s,
         [s EXCEPT !.name = "bar", !.stats = <<PatStats>>,
                   !.tried_regions = << <<>> >>],
         [s EXCEPT !.action = IF @ = damos_action_stat
                              THEN damos_action_pageout
                              ELSE damos_action_stat],
         [s EXCEPT !.quotas = DamosQuotas(1, 0, ulong_max, 0, 0, 0)],
         [s EXCEPT !.watermarks =
             DamosWatermarks(damos_wmarks_metric_free_mem_rate, 0, 0, 0, 0)],
         [s EXCEPT !.filters = <<PatFilter>>],
         [s EXCEPT !.access_pattern = base],
         [s EXCEPT !.access_pattern = base, !.name = "bar",
                   !.stats = <<PatStats>>, !.tried_regions = << <<>> >>],
         [s EXCEPT !.access_pattern = human],
         [s EXCEPT !.access_pattern.max_nr_accesses = IF @ = 3 THEN 100 ELSE 3]}

\* scheme.effectively_equal(other, intervals) and scheme == other
PatCallEffectivelyEqual ==
    /\ \E other \in PatOtherSchemes(scheme, intervals) :
          LET r == DamosEffectivelyEqual(scheme, other, intervals)
          IN  pRet' = [op |-> "effectively_equal", other |-> other,
                       val |-> r.val, exc |-> r.exc,
                       eq |-> Damos_eq(scheme, other)]
    /\ UNCHANGED <<scheme, intervals, sLineage>>
    /\ UNCHANGED patOthers

\* is_monitoring_scheme(scheme, intervals)
PatCallIsMonitoringScheme ==
    /\ LET r == is_monitoring_scheme(scheme, intervals)
       IN  pRet' = [op |-> "is_monitoring_scheme", val |-> r.val, exc |-> r.exc]
    /\ UNCHANGED <<scheme, intervals, sLineage>>
    /\ UNCHANGED patOthers

PatNext ==
    \/ PatRename
    \/ PatConvertNrAccessesUnit
    \/ PatConvertAgeUnit
    \/ PatConvertForUnits
    \/ PatCallConvertedForUnits
    \/ PatCallEffectivelyEqual
    \/ PatCallLaw
    \/ PatCallIsMonitoringScheme

(***************************************************************************)
(* The conversions of a pattern called with any tag: a tag of the other    *)
(* dimension is given as well as the two of the dimension converted.       *)
(***************************************************************************)
NrAccessesTags == NrAccessesUnits \cup {unit_usec}
AgeTags == AgeUnits \cup {unit_percent}

MaxTagNrAccesses == 1000   \* the access counts stay below this

TagInit ==
    /\ PatInit
    /\ scheme.action = damos_action_stat

\* the call has been made on the scheme's pattern
TagCalled(op, r, u1, u2) ==
    /\ r.pat.max_nr_accesses <= MaxTagNrAccesses
    /\ scheme' = [scheme EXCEPT !.access_pattern = r.pat]
    /\ pRet' = [op |-> op, exc |-> r.exc, before |-> scheme.access_pattern,
                 u1 |-> u1, u2 |-> u2]
    /\ UNCHANGED <<intervals, sLineage>>
    /\ UNCHANGED patOthers

\* scheme.access_pattern.convert_nr_accesses_unit(u, intervals)
TagConvertNrAccessesUnit ==
    \E u \in NrAccessesTags :
        TagCalled("convert_nr_accesses_unit",
                  convert_nr_accesses_unit(scheme.access_pattern, u, intervals),
                  u, scheme.access_pattern.age_unit)

\* scheme.access_pattern.convert_age_unit(u, intervals)
TagConvertAgeUnit ==
    \E u \in AgeTags :
        TagCalled("convert_age_unit",
                  convert_age_unit(scheme.access_pattern, u, intervals),
                  scheme.access_pattern.nr_accesses_unit, u)

\* scheme.access_pattern.convert_for_units(u1, u2, intervals)
TagConvertForUnits ==
    \E u1 \in NrAccessesTags, u2 \in AgeTags :
        TagCalled("convert_for_units",
                  convert_for_units(scheme.access_pattern, u1, u2, intervals),
                  u1, u2)

TagNext ==
    \/ TagConvertNrAccessesUnit
    \/ TagConvertAgeUnit
    \/ TagConvertForUnits

(***************************************************************************)
(* Claims about the access pattern and the scheme                          *)
(***************************************************************************)
\* A conversion of p to (u1, u2) and back to (sample_intervals,
\* aggr_intervals) that loses nothing: the access counts are in percent or
\* stay in sample_intervals, and the ages are in usec, stay in
\* aggr_intervals, or are integers a double holds exactly.
NothingLost(p, u1, u2) ==
    /\ p.nr_accesses_unit = unit_percent \/ u1 = unit_sample_intervals
    /\ \/ p.age_unit = unit_usec
       \/ u2 = unit_aggr_intervals
       \/ p.min_age < DoublePrecision /\ p.max_age < DoublePrecision

C4_DefaultSchemeIsMonitoring ==
    pRet.op = "is_monitoring_scheme" /\ sLineage = "default"
        => pRet.exc = "" /\ pRet.val

\* What the code keeps of C4: the answer under positive sample and aggr
\* intervals.
DefaultSchemeIsMonitoringUnderPositiveIntervals ==
    /\ pRet.op = "is_monitoring_scheme"
    /\ sLineage = "default"
    /\ intervals.sample > 0
    /\ intervals.aggr > 0
    => pRet.exc = "" /\ pRet.val

\* The parts other than the name and the pattern that both equalities
\* compare
SamePolicy(a, b) ==
    /\ a.action = b.action
    /\ a.quotas = b.quotas
    /\ a.watermarks = b.watermarks
    /\ FiltersEq(a.filters, b.filters)

\* The pattern after its conversion to (sample_intervals, aggr_intervals)
InBaseUnits(p, ivl) ==
    converted_for_units(p, unit_sample_intervals, unit_aggr_intervals, ivl).pat

\* C11: scheme.effectively_equal(other, I) is true exactly when the two
\* patterns are equal after their conversion to (sample_intervals,
\* aggr_intervals) under I and action, quotas, watermarks and filters are
\* equal, whatever the names, stats and tried regions; scheme == other is
\* true exactly when moreover the names are equal and the patterns are equal
\* field by field; a percent/usec pattern and its converted equivalent are
\* unequal under == and effectively equal.
C11_SchemeEqualityVersusEffectiveEquality ==
    pRet.op = "effectively_equal" =>
        LET a == scheme
            b == pRet.other
            ca == InBaseUnits(a.access_pattern, intervals)
            cb == InBaseUnits(b.access_pattern, intervals)
        IN  /\ pRet.exc = ""
            /\ pRet.val <=> (ca = cb /\ SamePolicy(a, b))
            /\ pRet.eq <=> /\ a.name = b.name
                           /\ a.access_pattern = b.access_pattern
                           /\ SamePolicy(a, b)
            /\ /\ a.access_pattern.nr_accesses_unit = unit_percent
               /\ a.access_pattern.age_unit = unit_usec
               /\ b.access_pattern = ca
               /\ SamePolicy(a, b)
               => ~pRet.eq /\ pRet.val

\* What the code keeps of C11: the answers under positive sample and aggr
\* intervals, and whenever the call returns.
SchemeEqualityWhenReturned ==
    pRet.op = "effectively_equal" =>
        LET a == scheme
            b == pRet.other
            ca == InBaseUnits(a.access_pattern, intervals)
            cb == InBaseUnits(b.access_pattern, intervals)
        IN  /\ pRet.exc \in {"", "ZeroDivisionError"}
            /\ intervals.sample > 0 /\ intervals.aggr > 0 => pRet.exc = ""
            /\ pRet.exc = "" => (pRet.val <=> (ca = cb /\ SamePolicy(a, b)))
            /\ pRet.eq <=> /\ a.name = b.name
                           /\ a.access_pattern = b.access_pattern
                           /\ SamePolicy(a, b)
            /\ /\ pRet.exc = ""
               /\ a.access_pattern.nr_accesses_unit = unit_percent
               /\ a.access_pattern.age_unit = unit_usec
               /\ b.access_pattern = ca
               /\ SamePolicy(a, b)
               => ~pRet.eq /\ pRet.val

\* A scheme in (percent, usec) has been compared with its renamed
\* equivalent in (sample_intervals, aggr_intervals) that carries statistics.
SchemeEqualityCompared ==
    /\ pRet.op = "effectively_equal"
    /\ pRet.exc = ""
    /\ pRet.val
    /\ ~pRet.eq
    /\ scheme.access_pattern.nr_accesses_unit = unit_percent
    /\ pRet.other.access_pattern.nr_accesses_unit = unit_sample_intervals
    /\ pRet.other.access_pattern.age_unit = unit_aggr_intervals
    /\ pRet.other.stats # NoneValue

\* The value C12 gives an access-count bound v converted from one unit to
\* another, with R = I.aggr / I.sample
ClaimedNrAccesses(v, from, to, ivl) ==
    IF from = to THEN v
    ELSE IF to = unit_sample_intervals
    \* floor(v * R / 100)
    THEN (v * ivl.aggr) \div (ivl.sample * 100)
    \* floor(v * 100 / R)
    ELSE (v * 100 * ivl.sample) \div ivl.aggr

\* The value C12 gives an age bound a converted from one unit to another
ClaimedAge(a, from, to, ivl) ==
    IF from = to THEN a
    ELSE IF to = unit_aggr_intervals THEN a \div ivl.aggr
    ELSE a * ivl.aggr

\* The pattern C12 gives for p converted to the units (u1, u2)
ClaimedConversion(p, u1, u2, ivl) ==
    [p EXCEPT
        !.min_nr_accesses = ClaimedNrAccesses(@, p.nr_accesses_unit, u1, ivl),
        !.max_nr_accesses = ClaimedNrAccesses(@, p.nr_accesses_unit, u1, ivl),
        !.nr_accesses_unit = u1,
        !.min_age = ClaimedAge(@, p.age_unit, u2, ivl),
        !.max_age = ClaimedAge(@, p.age_unit, u2, ivl),
        !.age_unit = u2]

\* The quotients of C12 exist: R exists and is not a divisor 0, and the
\* aggregation interval is not a divisor 0
ConversionDefined(p, u1, u2, ivl) ==
    /\ p.nr_accesses_unit # u1 => ivl.sample > 0
    /\ p.nr_accesses_unit # u1 /\ u1 = unit_percent => ivl.aggr > 0
    /\ p.age_unit # u2 /\ u2 = unit_aggr_intervals => ivl.aggr > 0

ConversionOps ==
    {"convert_nr_accesses_unit", "convert_age_unit", "convert_for_units",
     "converted_for_units"}

\* The pattern a conversion call has produced: the returned copy, or the
\* scheme's pattern converted in place
ConversionResult ==
    IF pRet.op = "converted_for_units" THEN pRet.pat ELSE scheme.access_pattern

\* C12: a conversion to the units (u1, u2) under I gives floor(v * R / 100)
\* or floor(v * 100 / R) for the access counts and floor(a / I.aggr) or
\* a * I.aggr for the ages, leaves a field in the requested unit and the
\* sizes unchanged and sets both unit tags; converted_for_units returns
\* this in a copy and leaves the receiver unchanged.
C12_UnitConversionValues ==
    /\ pRet.op \in ConversionOps
    /\ ConversionDefined(pRet.before, pRet.u1, pRet.u2, intervals)
    => /\ pRet.exc = ""
       /\ ConversionResult
              = ClaimedConversion(pRet.before, pRet.u1, pRet.u2, intervals)
       /\ pRet.op = "converted_for_units"
              => scheme.access_pattern = pRet.before

\* What the code keeps of C12: the values whenever the quotient of an age
\* converted to aggr_intervals is an integer a double holds exactly.
ConversionValuesOfExactQuotients ==
    /\ pRet.op \in ConversionOps
    /\ ConversionDefined(pRet.before, pRet.u1, pRet.u2, intervals)
    /\ \/ pRet.before.age_unit = pRet.u2
       \/ pRet.u2 = unit_usec
       \/ pRet.before.max_age \div intervals.aggr < DoublePrecision
    => /\ pRet.exc = ""
       /\ ConversionResult
              = ClaimedConversion(pRet.before, pRet.u1, pRet.u2, intervals)
       /\ pRet.op = "converted_for_units"
              => scheme.access_pattern = pRet.before

\* A copy of a pattern in (percent, usec) has been converted to
\* (sample_intervals, aggr_intervals), both conversions changing values.
ConversionValuesCompared ==
    /\ pRet.op = "converted_for_units"
    /\ pRet.exc = ""
    /\ pRet.before.nr_accesses_unit = unit_percent
    /\ pRet.before.age_unit = unit_usec
    /\ pRet.before.min_age = 7
    /\ pRet.u1 = unit_sample_intervals
    /\ pRet.u2 = unit_aggr_intervals
    /\ pRet.pat.max_nr_accesses = 10
    /\ pRet.pat.max_age = 3
    /\ intervals.aggr = 30

(***************************************************************************)
(* _damon_result.py: the binary record format                              *)
(*                                                                         *)
(* A file is a sequence of bytes.  struct packs in the native byte order   *)
(* and width; the model is of a little-endian machine with 8-byte long     *)
(* ('l', 'L') and 4-byte int ('i', 'I').  The model checker's integers     *)
(* have 32 bits, so every number of the model is below 2^31 in magnitude   *)
(* and the times of a monitoring result are at most 2 s.                   *)
(***************************************************************************)
\* b'damon_recfmt_ver'
damon_recfmt_ver ==
    <<100, 97, 109, 111, 110, 95, 114, 101, 99, 102, 109, 116, 95, 118, 101, 114>>

NsecPerSec == 1000000000

\* struct.calcsize(code)
SizeOf(code) == IF code \in {"l", "L"} THEN 8 ELSE 4

IsSigned(code) == code \in {"i", "l"}

RECURSIVE LittleEndian(_, _)
\* The n low bytes of v >= 0, lowest first
LittleEndian(v, n) ==
    IF n = 0 THEN <<>>
    ELSE <<v % 256>> \o LittleEndian(v \div 256, n - 1)

Complement(bytes) == [i \in 1 .. Len(bytes) |-> 255 - bytes[i]]

\* The two's complement bytes of any v
TwosComplement(v, n) ==
    IF v >= 0 THEN LittleEndian(v, n)
    ELSE Complement(LittleEndian(-v - 1, n))

\* struct.pack(code, v): the bytes, or struct.error for a v outside the range
\* of the code, which below 2^31 in magnitude is a negative v for an
\* unsigned code
StructPack(code, v) ==
    IF v < 0 /\ ~IsSigned(code)
    THEN [bytes |-> <<>>, exc |-> "struct.error"]
    ELSE [bytes |-> TwosComplement(v, SizeOf(code)), exc |-> ""]

RECURSIVE LittleEndianValue(_)
\* The number >= 0 whose bytes, lowest first, are given
LittleEndianValue(bytes) ==
    IF bytes = <<>> THEN 0
    ELSE Head(bytes) + 256 * LittleEndianValue(Tail(bytes))

\* An unpack that takes a short buffer for the bytes of a small number
StructUnpackShort(code, bytes) ==
    [val |-> LittleEndianValue(bytes), exc |-> ""]

\* struct.unpack(code, bytes)[0]: the value, or struct.error when the
\* buffer has not the size of the code
StructUnpack(code, bytes) ==
    IF Len(bytes) # SizeOf(code) THEN [val |-> 0, exc |-> "struct.error"]
    ELSE IF IsSigned(code) /\ bytes[Len(bytes)] >= 128
    THEN [val |-> -LittleEndianValue(Complement(bytes)) - 1, exc |-> ""]
    ELSE [val |-> LittleEndianValue(bytes), exc |-> ""]

\* f.read(n) at position pos: what is left of the file, at most n bytes
FileRead(file, pos, n) ==
    SubSeq(file, pos + 1, IF pos + n <= Len(file) THEN pos + n ELSE Len(file))

(***************************************************************************)
(* DAMONResult and write_damon_record                                      *)
(*                                                                         *)
(* target_snapshots, a dict, is the sequence of its items in insertion     *)
(* order: <<[tid |-> key, snapshots |-> list], ...>>.                      *)
(***************************************************************************)
DAMONResult(start_time, end_time, nr_snapshots, target_snapshots) ==
    [start_time |-> start_time, end_time |-> end_time,
     nr_snapshots |-> nr_snapshots, target_snapshots |-> target_snapshots]

WithRegions(snapshot, regions) == [snapshot EXCEPT !.regions = regions]

RECURSIVE RegionFields(_)
\* The writes of the loop over snapshot.regions: <<code, value>> each
RegionFields(regions) ==
    IF regions = <<>> THEN <<>>
    ELSE <<<<"L", Head(regions).start>>, <<"L", Head(regions).end>>,
           <<"I", Head(regions).nr_accesses>>>>
         \o RegionFields(Tail(regions))

\* if format_version == 1: pack('i', ...) else: pack('L', ...)
WriteTargetIdCode(format_version) == IF format_version = 1 THEN "i" ELSE "L"

\* The writes for one snapshot
SnapshotFields(snapshot, format_version) ==
    <<<<"l", snapshot.end_time \div NsecPerSec>>,
      <<"l", snapshot.end_time % NsecPerSec>>,
      <<"I", 1>>,
      <<WriteTargetIdCode(format_version), snapshot.target_id>>,
      <<"I", Len(snapshot.regions)>>>>
    \o RegionFields(snapshot.regions)

RECURSIVE TargetsFields(_, _, _)
\* for tid in result.target_snapshots, at one snapshot_idx (counted from 1);
\* indexing a list that is too short raises IndexError
TargetsFields(items, snapshot_idx, format_version) ==
    IF items = <<>> THEN <<>>
    ELSE IF snapshot_idx > Len(Head(items).snapshots)
    THEN <<<<"raise", "IndexError">>>>
    ELSE SnapshotFields(Head(items).snapshots[snapshot_idx], format_version)
         \o TargetsFields(Tail(items), snapshot_idx, format_version)

RECURSIVE SnapshotsFields(_, _, _)
\* for snapshot_idx in range(result.nr_snapshots)
SnapshotsFields(result, snapshot_idx, format_version) ==
    IF snapshot_idx > result.nr_snapshots THEN <<>>
    ELSE TargetsFields(result.target_snapshots, snapshot_idx, format_version)
         \o SnapshotsFields(result, snapshot_idx + 1, format_version)

RECURSIVE WriteFields(_, _)
\* The file after the writes, made until one raises
WriteFields(fields, written) ==
    IF fields = <<>> THEN [bytes |-> written, exc |-> ""]
    ELSE IF Head(fields)[1] = "raise"
    THEN [bytes |-> written, exc |-> Head(fields)[2]]
    ELSE LET p == StructPack(Head(fields)[1], Head(fields)[2])
         IN  IF p.exc # "" THEN [bytes |-> written, exc |-> p.exc]
             ELSE WriteFields(Tail(fields), written \o p.bytes)

\* write_damon_record: the file it leaves and the exception it raised
write_damon_record(result, format_version) ==
    WriteFields(<<<<"i", format_version>>>>
                \o SnapshotsFields(result, 1, format_version),
                damon_recfmt_ver)

(***************************************************************************)
(* record_to_damon_result                                                  *)
(***************************************************************************)
\* if fmt_version == 1: unpack('i', ...) else: unpack('L', ...)
ReadTargetIdCode(fmt_version) == IF fmt_version = 1 THEN "i" ELSE "L"

\* None, where the program otherwise holds a number; no number of the model
\* has this value
NoNumber == -1000000

\* A time that Python holds as a float: base - num / den
TimeMinus(base, num, den) == [base |-> base, num |-> num, den |-> den]

\* None, where the program otherwise holds such a time
NoTime == TimeMinus(NoNumber, 0, 1)

\* not v, for a number or None
Falsy(v) == v = NoNumber \/ v = 0

EndTimeInUsec(sec, nsec) == sec * 1000000 + nsec

\* end_time = sec * 1000000000 + nsec
EndTimeOf(sec, nsec) == sec * NsecPerSec + nsec

RECURSIVE ReadRegions(_, _, _, _)
\* for r in range(nr_regions): the regions read, the position afterwards
ReadRegions(file, pos, nr_regions, regions) ==
    IF nr_regions = 0 THEN [regions |-> regions, pos |-> pos, exc |-> ""]
    ELSE LET start_addr == StructUnpack("L", FileRead(file, pos, 8))
             end_addr == StructUnpack("L", FileRead(file, pos + 8, 8))
             nr_accesses == StructUnpack("I", FileRead(file, pos + 16, 4))
         IN  IF start_addr.exc # "" \/ end_addr.exc # "" \/ nr_accesses.exc # ""
             THEN [regions |-> regions, pos |-> Len(file), exc |-> "struct.error"]
             ELSE ReadRegions(file, pos + 20, nr_regions - 1,
                     Append(regions, DAMONRegion(start_addr.val, end_addr.val,
                                                 nr_accesses.val, NoAge)))

\* The index of target_id's item in the dict, 0 when it has none
ItemOf(items, target_id) ==
    IF \E i \in 1 .. Len(items) : items[i].tid = target_id
    THEN CHOOSE i \in 1 .. Len(items) : items[i].tid = target_id
    ELSE 0

\* target_snapshots.append(snapshot), for result.target_snapshots[target_id]
AppendSnapshot(items, target_id, end_time, regions) ==
    LET i == ItemOf(items, target_id)
        start_time == IF i = 0 \/ items[i].snapshots = <<>> THEN NoNumber
                      ELSE items[i].snapshots[Len(items[i].snapshots)].end_time
        snapshot == WithRegions(DAMONSnapshot(start_time, end_time, target_id),
                                regions)
    IN  IF i = 0
        THEN Append(items, [tid |-> target_id, snapshots |-> <<snapshot>>])
        ELSE [items EXCEPT ![i].snapshots = Append(@, snapshot)]

RECURSIVE ReadTasks(_, _, _, _, _, _)
\* for t in range(nr_tasks): the dict and the position afterwards
ReadTasks(file, pos, nr_tasks, fmt_version, end_time, items) ==
    IF nr_tasks = 0 THEN [items |-> items, pos |-> pos, exc |-> ""]
    ELSE LET code == ReadTargetIdCode(fmt_version)
             target_id == StructUnpack(code, FileRead(file, pos, SizeOf(code)))
             pos2 == pos + SizeOf(code)
             nr_regions == StructUnpack("I", FileRead(file, pos2, 4))
             rr == ReadRegions(file, pos2 + 4, nr_regions.val, <<>>)
         IN  IF target_id.exc # "" \/ nr_regions.exc # ""
             THEN [items |-> items, pos |-> Len(file), exc |-> "struct.error"]
             ELSE IF rr.exc # ""
             THEN [items |-> items, pos |-> rr.pos, exc |-> rr.exc]
             ELSE ReadTasks(file, rr.pos, nr_tasks - 1, fmt_version, end_time,
                     AppendSnapshot(items, target_id.val, end_time, rr.regions))

\* A stream handle f is the position of the open stream, NoNumber for None,
\* or Closed.
Closed == -2

\* DAMONResult() with its dict filled
ResultOf(items) == DAMONResult(NoTime, NoNumber, NoNumber, items)

\* return result, f, fmt_version, None.  err is "" for None.  stream is
\* the state in which the call leaves the stream: its position, or Closed.
DecodeReturn(items, f, fmt_version) ==
    [result |-> ResultOf(items), f |-> f, fmt_version |-> fmt_version,
     err |-> "", exc |-> "", stream |-> f]

\* An exception leaves the call: nothing is returned, the stream stays open
\* at position f
DecodeRaise(f, exc) ==
    [result |-> ResultOf(<<>>), f |-> f, fmt_version |-> NoNumber,
     err |-> "", exc |-> exc, stream |-> f]

\* A refusal that leaves the stream open at its start
DecodeRefuseOpen ==
    [result |-> ResultOf(<<>>), f |-> NoNumber, fmt_version |-> NoNumber,
     err |-> "fmt_version is not given", exc |-> "", stream |-> 0]

\* f.close(); return None, None, None, 'fmt_version is not given'
DecodeRefuse ==
    [result |-> ResultOf(<<>>), f |-> NoNumber, fmt_version |-> NoNumber,
     err |-> "fmt_version is not given", exc |-> "", stream |-> Closed]

\* f.seek(-16, 1)
SeekBack16(pos) == pos - 16

RECURSIVE ReadRecords(_, _, _, _, _, _)
\* while True: ...
ReadRecords(file, pos, fmt_version, max_secs, parse_start_time, items) ==
    LET timebin == FileRead(file, pos, 16)
    IN  IF Len(timebin) # 16
        \* the short read has moved the stream to its end
        THEN DecodeReturn(items, IF max_secs = NoNumber THEN Closed ELSE Len(file),
                          fmt_version)
        ELSE
        LET sec == StructUnpack("l", SubSeq(timebin, 1, 8)).val
            nsec == StructUnpack("l", SubSeq(timebin, 9, 16)).val
            end_time == EndTimeOf(sec, nsec)
            start == IF Falsy(parse_start_time) THEN end_time ELSE parse_start_time
            nr_tasks == StructUnpack("I", FileRead(file, pos + 16, 4))
            rt == ReadTasks(file, pos + 20, nr_tasks.val, fmt_version, end_time, items)
        IN  IF /\ ~Falsy(parse_start_time)
               /\ max_secs # NoNumber
               /\ end_time - parse_start_time > max_secs * NsecPerSec
            THEN DecodeReturn(items, SeekBack16(pos + 16), fmt_version)
            ELSE IF nr_tasks.exc # "" THEN DecodeRaise(Len(file), nr_tasks.exc)
            ELSE IF rt.exc # "" THEN DecodeRaise(rt.pos, rt.exc)
            ELSE ReadRecords(file, rt.pos, fmt_version, max_secs, start, rt.items)

\* record_to_damon_result(file_path, f, fmt_version, max_secs)
record_to_damon_result(file, f, fmt_version, max_secs) ==
    IF f = NoNumber
    THEN \* open the file and read the record format version
         LET mark == FileRead(file, 0, 16)
             version == StructUnpack("i", FileRead(file, 16, 4))
         IN  IF mark = damon_recfmt_ver
             THEN IF version.exc # "" THEN DecodeRaise(Len(file), version.exc)
                  ELSE ReadRecords(file, 20, version.val, max_secs, NoNumber, <<>>)
             \* fmt_version = 0; f.seek(0)
             ELSE ReadRecords(file, 0, 0, max_secs, NoNumber, <<>>)
    ELSE IF Falsy(fmt_version)
    THEN DecodeRefuse
    ELSE ReadRecords(file, f, fmt_version, max_secs, NoNumber, <<>>)

(***************************************************************************)
(* write_damon_result and parse_damon_result                               *)
(***************************************************************************)
\* A fake snapshot of no duration
FakeSnapshotAtEnd(snapshot) ==
    WithRegions(DAMONSnapshot(snapshot.end_time, snapshot.end_time,
                              snapshot.target_id),
                <<DAMONRegion(0, 0, -1, -1)>>)

\* The fake snapshot that write_damon_result appends to a list of one
FakeSnapshot(snapshot) ==
    LET snap_duration == snapshot.end_time - snapshot.start_time
    IN  WithRegions(DAMONSnapshot(snapshot.end_time,
                                  snapshot.end_time + snap_duration,
                                  snapshot.target_id),
                    <<DAMONRegion(0, 0, -1, -1)>>)

RECURSIVE AppendFakeSnapshots(_, _)
\* The loop of write_damon_result over result.target_snapshots.values():
\* the result afterwards
AppendFakeSnapshots(result, i) ==
    IF i > Len(result.target_snapshots) THEN result
    ELSE LET snapshots == result.target_snapshots[i].snapshots
         IN  IF Len(snapshots) = 1
             THEN AppendFakeSnapshots(
                     [result EXCEPT
                        !.target_snapshots[i].snapshots =
                            Append(@, FakeSnapshot(snapshots[1])),
                        !.nr_snapshots = @ + 1],
                     i + 1)
             ELSE AppendFakeSnapshots(result, i + 1)

\* write_damon_result(result, file_path, file_type_record, file_permission):
\* the result afterwards, the file and the exception raised
write_damon_result(result) ==
    LET faked == AppendFakeSnapshots(result, 1)
        w == write_damon_record(faked, 2)
    IN  [result |-> faked, bytes |-> w.bytes, exc |-> w.exc]

\* region.start == 0 and region.end == 0 and region.nr_accesses == -1 and
\* region.age == -1
IsFakeRegion(region) ==
    /\ region.start = 0
    /\ region.end = 0
    /\ region.nr_accesses = -1
    /\ region.age = -1

\* not (base - num / den)
FalsyTime(t) == t.base * t.den = t.num

RECURSIVE Normalize(_, _, _)
\* The loop of parse_damon_result_for over result.target_snapshots.values().
\* snapshot_time is <<num, den>>, or <<>> before it is first computed.
Normalize(result, i, snapshot_time) ==
    IF i > Len(result.target_snapshots) THEN result
    ELSE
    LET snapshots == result.target_snapshots[i].snapshots
        n == Len(snapshots)
        \* not result.start_time
        unset == result.start_time = NoTime \/ FalsyTime(result.start_time)
        \* snapshot_time = float(end_time - start_time) / nr_snapshots
        snapshot_time2 ==
            IF unset
            THEN <<snapshots[n].end_time - snapshots[1].end_time, n - 1>>
            ELSE snapshot_time
        result2 ==
            IF unset
            THEN [result EXCEPT
                    !.start_time = TimeMinus(snapshots[1].end_time,
                                             snapshot_time2[1], snapshot_time2[2]),
                    !.end_time = snapshots[n].end_time,
                    !.nr_snapshots = n]
            ELSE result
        \* snapshots[0].start_time = snapshots[0].end_time - snapshot_time
        first == [snapshots[1] EXCEPT
                    !.start_time = TimeMinus(snapshots[1].end_time,
                                             snapshot_time2[1], snapshot_time2[2])]
        \* cut out the fake snapshot for end time
        cut == /\ n = 2
               /\ Len(snapshots[2].regions) = 1
               /\ IsFakeRegion(snapshots[2].regions[1])
        snapshots2 == IF cut THEN <<first>> ELSE [snapshots EXCEPT ![1] = first]
    IN  \* if len(snapshots) < 2: break
        IF n < 2 THEN result
        ELSE Normalize([result2 EXCEPT !.target_snapshots[i].snapshots = snapshots2],
                       i + 1, snapshot_time2)

\* parse_damon_result(result_file) for a file that is not a perf script:
\* (result, err), or the exception raised
parse_damon_result(file) ==
    LET d == record_to_damon_result(file, NoNumber, NoNumber, NoNumber)
    IN  IF d.exc # "" \/ d.err # "" THEN d
        ELSE [d EXCEPT !.result = Normalize(d.result, 1, <<>>), !.f = Closed]

(***************************************************************************)
(* A monitoring result is written to a file and the file is read back.     *)
(***************************************************************************)
MaxCodecSnapshots == 2    \* snapshots per target of a written result

\* The target ids of a result, in dict order
CodecTargets == {<<>>, <<300>>, <<2, 300>>}

CodecVersions == {0, 1, 2}

RegionsNone == <<>>
RegionsOne == <<DAMONRegion(100, 200, 3, NoAge)>>
RegionsTwo == <<DAMONRegion(0, 4096, 0, 7), DAMONRegion(4096, 70000, 300, 7)>>

\* <<end time, regions>> of a snapshot
CodecSnapshots ==
    {<<0, RegionsNone>>, <<999999999, RegionsOne>>,
     <<1000000007, RegionsOne>>, <<1000000007, RegionsTwo>>}

\* The snapshot list of one target from the choices made for it: each
\* snapshot starts where the one before ended, the first 1000 ns before
\* its end
SnapshotList(tid, picks) ==
    [k \in 1 .. Len(picks) |->
        WithRegions(DAMONSnapshot(IF k = 1 THEN picks[1][1] - 1000
                                  ELSE picks[k - 1][1],
                                  picks[k][1], tid),
                    picks[k][2])]

\* The results with n snapshots for each of the targets tids
CodecResults(tids, n) ==
    {DAMONResult(NoTime, NoNumber, n,
                 [i \in 1 .. Len(tids) |->
                     [tid |-> tids[i], snapshots |-> SnapshotList(tids[i], p[i])]]) :
        p \in [1 .. Len(tids) -> [1 .. n -> CodecSnapshots]]}

NoReturn == DecodeRaise(NoNumber, "")

NoHandle == [f |-> NoNumber, fmt_version |-> NoNumber]

\* The arguments of a call: the stream f (its position, from) and the
\* fmt_version given, NoNumber for None, and max_secs
NoStreamCall ==
    [from |-> NoNumber, max_secs |-> NoNumber, f |-> NoNumber,
     fmt_version |-> NoNumber]

\* The state of the stream of the polling part while another part runs
StreamIdle ==
    /\ fh = NoHandle
    /\ sCall = NoStreamCall
    /\ sRecs = <<>>

\* The state of the codec part while another part runs
CodecIdle ==
    /\ cPc = "idle"
    /\ mres = ResultOf(<<>>)
    /\ corig = ResultOf(<<>>)
    /\ cOp = ""
    /\ wver = NoNumber
    /\ wExc = ""
    /\ rfile = <<>>
    /\ dRet = NoReturn
    /\ StreamIdle

RoundTripInit ==
    /\ cPc = "made"
    /\ \E tids \in CodecTargets, n \in 1 .. MaxCodecSnapshots :
          mres \in CodecResults(tids, n)
    /\ corig = mres
    /\ cOp = ""
    /\ wver = NoNumber
    /\ wExc = ""
    /\ rfile = <<>>
    /\ dRet = NoReturn
    /\ StreamIdle

\* write_damon_record(mres, path, format_version, permission)
CodecWriteRecord ==
    /\ cPc = "made"
    /\ \E format_version \in CodecVersions :
          LET w == write_damon_record(mres, format_version)
          IN  /\ rfile' = w.bytes
              /\ wExc' = w.exc
              /\ wver' = format_version
    /\ cOp' = "write_damon_record"
    /\ cPc' = "written"
    /\ UNCHANGED <<mres, corig, dRet, fh, sCall, sRecs>>
    /\ UNCHANGED codecOthers

\* write_damon_result(mres, path, file_type_record, permission)
CodecWriteResult ==
    /\ cPc = "made"
    /\ LET w == write_damon_result(mres)
       IN  /\ mres' = w.result
           /\ rfile' = w.bytes
           /\ wExc' = w.exc
    /\ wver' = 2
    /\ cOp' = "write_damon_result"
    /\ cPc' = "written"
    /\ UNCHANGED <<corig, dRet, fh, sCall, sRecs>>
    /\ UNCHANGED codecOthers

\* record_to_damon_result(path, None, None, None) on the written file
CodecDecode ==
    /\ cPc = "written"
    /\ dRet' = record_to_damon_result(rfile, NoNumber, NoNumber, NoNumber)
    /\ cPc' = "decoded"
    /\ UNCHANGED <<mres, corig, cOp, wver, wExc, rfile, fh, sCall, sRecs>>
    /\ UNCHANGED codecOthers

\* parse_damon_result(path) on the written file
CodecParse ==
    /\ cPc = "written"
    /\ dRet' = parse_damon_result(rfile)
    /\ cPc' = "parsed"
    /\ UNCHANGED <<mres, corig, cOp, wver, wExc, rfile, fh, sCall, sRecs>>
    /\ UNCHANGED codecOthers

RoundTripNext ==
    \/ CodecWriteRecord
    \/ CodecWriteResult
    \/ CodecDecode
    \/ CodecParse

(***************************************************************************)
(* A stream of records is decoded by repeated calls, each resuming where   *)
(* the one before stopped (the stream handle and the format version that a *)
(* call returns are the arguments of the next).                            *)
(***************************************************************************)
MaxStreamRecords == 3    \* records of a stream

StreamBudgets == {0, 1}  \* max_secs

\* <<end time, regions>> of a record
StreamSnapshots ==
    {<<0, RegionsNone>>, <<500000000, RegionsOne>>, <<1000000000, RegionsNone>>,
     <<2000000000, RegionsOne>>}

\* A stream is the records of a result of one target, below the version
\* header or, for format version 0, also without one
StreamKinds ==
    {[header |-> TRUE, version |-> v] : v \in CodecVersions}
    \cup {[header |-> FALSE, version |-> 0]}

StreamHeaderLen(kind) == IF kind.header THEN 20 ELSE 0

StreamBytes(result, kind) ==
    LET bytes == write_damon_record(result, kind.version).bytes
    IN  IF kind.header THEN bytes ELSE SubSeq(bytes, 21, Len(bytes))

\* The size of a record of one task in the format of section 4.3: the
\* time (8 + 8), the task count (4), the target id (4 for version 1, else
\* 8), the region count (4) and 8 + 8 + 4 for each region
RecordSize(snapshot, version) ==
    16 + 4 + (IF version = 1 THEN 4 ELSE 8) + 4 + 20 * Len(snapshot.regions)

RECURSIVE RecordLayout(_, _, _)
\* Where each record of the stream starts and ends, and its time
RecordLayout(snapshots, version, start) ==
    IF snapshots = <<>> THEN <<>>
    ELSE LET end == start + RecordSize(Head(snapshots), version)
         IN  <<[start |-> start, end |-> end, time |-> Head(snapshots).end_time]>>
             \o RecordLayout(Tail(snapshots), version, end)

StreamInit ==
    /\ cPc = "stream"
    /\ \E n \in 0 .. MaxStreamRecords, kind \in StreamKinds :
          /\ mres \in CodecResults(<<300>>, n)
          /\ sRecs = [hdr |-> StreamHeaderLen(kind),
                      recs |-> RecordLayout(mres.target_snapshots[1].snapshots,
                                            kind.version, StreamHeaderLen(kind))]
          /\ wver = kind.version
          \* the stream as far as it has been written: the header and any
          \* number of the bytes after it
          /\ LET bytes == StreamBytes(mres, kind)
             IN  \E len \in StreamHeaderLen(kind) .. Len(bytes) :
                    rfile = SubSeq(bytes, 1, len)
    /\ corig = mres
    /\ cOp = ""
    /\ wExc = ""
    /\ dRet = NoReturn
    /\ fh = NoHandle
    /\ sCall = NoStreamCall

\* What the caller holds after a call: the handle and the version returned;
\* nothing after an error or an exception
HandleAfter(d) ==
    IF d.exc # "" \/ d.err # "" THEN [f |-> Closed, fmt_version |-> NoNumber]
    ELSE [f |-> d.f, fmt_version |-> d.fmt_version]

\* record_to_damon_result(path, None, None, max_secs)
StreamDecodeFirst ==
    /\ cPc = "stream"
    /\ fh = NoHandle
    /\ \E max_secs \in StreamBudgets \cup {NoNumber} :
          LET d == record_to_damon_result(rfile, NoNumber, NoNumber, max_secs)
          IN  /\ dRet' = d
              /\ fh' = HandleAfter(d)
              /\ sCall' = [from |-> sRecs.hdr, max_secs |-> max_secs,
                            f |-> NoNumber, fmt_version |-> NoNumber]
    /\ UNCHANGED <<cPc, mres, corig, cOp, wver, wExc, rfile, sRecs>>
    /\ UNCHANGED codecOthers

\* record_to_damon_result(path, f, fmt_version, max_secs) with the f and
\* the fmt_version of the call before
StreamDecodeResumed ==
    /\ cPc = "stream"
    /\ fh.f >= 0
    /\ \E max_secs \in StreamBudgets \cup {NoNumber} :
          LET d == record_to_damon_result(rfile, fh.f, fh.fmt_version, max_secs)
          IN  /\ dRet' = d
              /\ fh' = HandleAfter(d)
              /\ sCall' = [from |-> fh.f, max_secs |-> max_secs,
                            f |-> fh.f, fmt_version |-> fh.fmt_version]
    /\ UNCHANGED <<cPc, mres, corig, cOp, wver, wExc, rfile, sRecs>>
    /\ UNCHANGED codecOthers

\* record_to_damon_result(path, f, None, max_secs) with the f of the call
\* before
StreamDecodeWithoutVersion ==
    /\ cPc = "stream"
    /\ fh.f >= 0
    /\ \E max_secs \in StreamBudgets \cup {NoNumber} :
          LET d == record_to_damon_result(rfile, fh.f, NoNumber, max_secs)
          IN  /\ dRet' = d
              /\ fh' = HandleAfter(d)
              /\ sCall' = [from |-> fh.f, max_secs |-> max_secs,
                            f |-> fh.f, fmt_version |-> NoNumber]
    /\ UNCHANGED <<cPc, mres, corig, cOp, wver, wExc, rfile, sRecs>>
    /\ UNCHANGED codecOthers

StreamNext ==
    \/ StreamDecodeFirst
    \/ StreamDecodeResumed
    \/ StreamDecodeWithoutVersion

(***************************************************************************)
(* Claims about the record codec                                           *)
(***************************************************************************)
SameRegions(rs1, rs2) ==
    /\ Len(rs1) = Len(rs2)
    /\ \A i \in 1 .. Len(rs1) :
          /\ rs1[i].start = rs2[i].start
          /\ rs1[i].end = rs2[i].end
          /\ rs1[i].nr_accesses = rs2[i].nr_accesses

SameSnapshots(ss1, ss2) ==
    /\ Len(ss1) = Len(ss2)
    /\ \A k \in 1 .. Len(ss1) :
          /\ ss1[k].end_time = ss2[k].end_time
          /\ SameRegions(ss1[k].regions, ss2[k].regions)

SameTargets(items1, items2) ==
    /\ Len(items1) = Len(items2)
    /\ \A i \in 1 .. Len(items1) :
          /\ items1[i].tid = items2[i].tid
          /\ SameSnapshots(items1[i].snapshots, items2[i].snapshots)

EveryTargetHas(result, n) ==
    \A i \in 1 .. Len(result.target_snapshots) :
        Len(result.target_snapshots[i].snapshots) = n

\* C5: for a result whose targets all have the same number n >= 2 of
\* snapshots, with nr_snapshots = n, write_damon_record followed by
\* record_to_damon_result gives the format version written and, for every
\* target, the same snapshots in the same order, with the same end times
\* and the same regions (start, end, access count).
C5_BinaryEncodeInvertsDecode ==
    /\ cPc = "decoded"
    /\ cOp = "write_damon_record"
    /\ corig.nr_snapshots >= 2
    /\ EveryTargetHas(corig, corig.nr_snapshots)
    => /\ wExc = ""
       /\ dRet.exc = ""
       /\ dRet.err = ""
       /\ dRet.fmt_version = wver
       /\ SameTargets(dRet.result.target_snapshots, corig.target_snapshots)

\* A result of two targets with two snapshots each, one of them with two
\* regions and a time above one second, has been written in version 1 and
\* read back.
C5_Witness ==
    /\ cPc = "decoded"
    /\ cOp = "write_damon_record"
    /\ wver = 1
    /\ corig.nr_snapshots = 2
    /\ Len(corig.target_snapshots) = 2
    /\ corig.target_snapshots[1].snapshots[2].end_time = 1000000007
    /\ corig.target_snapshots[1].snapshots[2].regions = RegionsTwo
    /\ corig.target_snapshots[2].snapshots[1].end_time = 999999999
    /\ dRet.fmt_version = 1
    /\ SameTargets(dRet.result.target_snapshots, corig.target_snapshots)

\* C6: for a result whose targets have one snapshot each, write_damon_result
\* in the record format succeeds, parse_damon_result of the file succeeds
\* and gives, for each target, exactly one snapshot with the original's
\* regions and access counts.
C6_SingleSnapshotRoundTrip ==
    /\ cOp = "write_damon_result"
    /\ EveryTargetHas(corig, 1)
    => /\ wExc = ""
       /\ cPc = "parsed" =>
             /\ dRet.exc = ""
             /\ dRet.err = ""
             /\ SameTargets(dRet.result.target_snapshots, corig.target_snapshots)

\* The record boundaries of the stream: where its first record starts and
\* where each of its records ends
RecordBoundaries ==
    {sRecs.hdr} \cup {sRecs.recs[k].end : k \in 1 .. Len(sRecs.recs)}

RecordComplete(k) == sRecs.recs[k].end <= Len(rfile)

RecordHeaderComplete(k) == sRecs.recs[k].start + 16 <= Len(rfile)

\* The records from position from on, as far as each one before is
\* complete
RecordsFrom(from) ==
    {k \in 1 .. Len(sRecs.recs) :
        /\ sRecs.recs[k].start >= from
        /\ \A j \in 1 .. k - 1 : sRecs.recs[j].start >= from => RecordComplete(j)}

\* The records whose time is more than max_secs after the time of the
\* first record from position from on
OverBudget(from, max_secs) ==
    {k \in RecordsFrom(from) :
        /\ RecordHeaderComplete(k)
        /\ \E k0 \in RecordsFrom(from) :
              /\ sRecs.recs[k0].start = from
              /\ sRecs.recs[k].time - sRecs.recs[k0].time > max_secs * NsecPerSec}

\* Where C7 has a budgeted call stop
ExpectedStop(from, max_secs) ==
    IF OverBudget(from, max_secs) # {}
    THEN sRecs.recs[MinOf(OverBudget(from, max_secs))].start
    ELSE MaxOf({from} \cup {sRecs.recs[k].end :
                               k \in {j \in RecordsFrom(from) : RecordComplete(j)}})

\* C7: when a budgeted record_to_damon_result returns, the stream is at a
\* record boundary: at the first byte of the first record that is more than
\* max_secs after the first record decoded, or else after the last
\* complete record; also when the stream ends in fewer than 16 bytes of a
\* record header.
C7_BudgetedDecodeStopsAtRecordBoundary ==
    /\ cPc = "stream"
    /\ sCall.max_secs # NoNumber
    /\ dRet.exc = ""
    /\ dRet.err = ""
    => /\ dRet.f \in RecordBoundaries
       /\ sCall.from \in RecordBoundaries
             => dRet.f = ExpectedStop(sCall.from, sCall.max_secs)

\* The first record from position from on that the stream does not hold
\* whole, 0 when it holds them all
FirstIncomplete(from) ==
    LET cut == {k \in RecordsFrom(from) : ~RecordComplete(k)}
    IN  IF cut = {} THEN 0 ELSE MinOf(cut)

\* The snapshots of the records from position from on that come before
\* record k, or of all of them when k is 0
SnapshotsBefore(from, k) ==
    LET all == mres.target_snapshots[1].snapshots
        first == MinOf({j \in 1 .. Len(sRecs.recs) + 1 :
                           j = Len(sRecs.recs) + 1 \/ sRecs.recs[j].start >= from})
        last == IF k = 0 THEN Len(sRecs.recs) ELSE k - 1
    IN  SubSeq(all, first, last)

\* The snapshots a call has returned: those of the one target of the
\* stream, none when the dict is empty
SnapshotsReturned ==
    IF dRet.result.target_snapshots = <<>> THEN <<>>
    ELSE dRet.result.target_snapshots[1].snapshots

\* C16: a decode that starts at a record boundary and meets the end of the
\* stream within the first 16 bytes of a record returns without an error
\* the records complete so far; one that meets the end of the stream after
\* the 16 bytes of a record's time, inside that record, fails and returns
\* no result.  (A budgeted call that stops at an earlier record, or at this
\* one by its time, does not meet the end of the stream.)
C16_DecodeOfTruncatedStream ==
    /\ cPc = "stream"
    /\ sCall.from \in RecordBoundaries
    /\ dRet.err = ""
    /\ FirstIncomplete(sCall.from) # 0
    /\ sCall.max_secs # NoNumber => OverBudget(sCall.from, sCall.max_secs) = {}
    => LET k == FirstIncomplete(sCall.from)
       IN  IF ~RecordHeaderComplete(k)
           THEN /\ dRet.exc = ""
                /\ Len(dRet.result.target_snapshots) <= 1
                /\ SameSnapshots(SnapshotsReturned,
                                 SnapshotsBefore(sCall.from, k))
           ELSE /\ dRet.exc # ""
                /\ dRet.result = ResultOf(<<>>)

\* A stream that ends inside the regions of its second record has been
\* refused, and one that ends inside the time of its second record has
\* given its first record
C16_Witness ==
    /\ cPc = "stream"
    /\ sCall.from = sRecs.hdr
    /\ dRet.err = ""
    /\ FirstIncomplete(sCall.from) = 2
    /\ \/ /\ Len(rfile) > sRecs.recs[2].start + 32
          /\ dRet.exc = "struct.error"
       \/ /\ Len(rfile) = sRecs.recs[2].start + 9
          /\ dRet.exc = ""
          /\ Len(SnapshotsReturned) = 1

\* C17: record_to_damon_result given an open stream and no format version
\* returns the error 'fmt_version is not given' with no result, no stream
\* handle and no version, having read no record, and closes the stream;
\* given no stream it opens the file and takes the version from the magic
\* header, or takes version 0 and reads from offset 0 when the file does
\* not begin with the magic.
C17_DecodeWithoutFormatVersion ==
    cPc = "stream" /\ sCall.from # NoNumber =>
        /\ sCall.f # NoNumber /\ sCall.fmt_version = NoNumber
              => /\ dRet.err = "fmt_version is not given"
                 /\ dRet.exc = ""
                 /\ dRet.result = ResultOf(<<>>)
                 /\ dRet.f = NoNumber
                 /\ dRet.fmt_version = NoNumber
                 /\ dRet.stream = Closed
        /\ sCall.f = NoNumber /\ dRet.exc = ""
              => /\ dRet.err = ""
                 /\ dRet.fmt_version = IF sRecs.hdr = 0 THEN 0 ELSE wver
                 /\ sRecs.recs # <<>> /\ RecordComplete(1)
                       => /\ SnapshotsReturned # <<>>
                          /\ SnapshotsReturned[1].end_time = sRecs.recs[1].time

\* A budgeted call has read the first record of a stream written in
\* version 2, and the call after it, given the stream and no version, has
\* been refused
C17_Witness ==
    /\ cPc = "stream"
    /\ wver = 2
    /\ Len(sRecs.recs) >= 2
    /\ sCall.f = sRecs.recs[1].end
    /\ sCall.fmt_version = NoNumber
    /\ Len(rfile) > sCall.f
    /\ dRet.err = "fmt_version is not given"
    /\ dRet.stream = Closed

\* The stream holds every one of its records whole
StreamComplete == sRecs.recs = <<>> \/ RecordComplete(Len(sRecs.recs))

\* The last call was one of a polling caller: with a budget, and either
\* without a stream or, after calls that decoded records, with the stream
\* and the version of the call before
PollingCall ==
    /\ cPc = "stream"
    /\ sCall.from # NoNumber
    /\ sCall.max_secs # NoNumber
    /\ \/ sCall.f = NoNumber
       \/ sCall.fmt_version # NoNumber /\ sCall.from > sRecs.hdr

\* The snapshots that a decode of the whole stream without a budget gives
\* for the records that start at from or later and before to
OneShotBetween(from, to) ==
    LET d == record_to_damon_result(rfile, NoNumber, NoNumber, NoNumber)
        all == IF d.result.target_snapshots = <<>> THEN <<>>
               ELSE d.result.target_snapshots[1].snapshots
        ks == {k \in 1 .. Len(sRecs.recs) :
                  sRecs.recs[k].start >= from /\ sRecs.recs[k].start < to}
    IN  IF ks = {} THEN <<>> ELSE SubSeq(all, MinOf(ks), MaxOf(ks))

\* A polling call has returned without an error the next records of the
\* stream, as a decode of the whole stream gives them, and it has decoded
\* no record only at the end of the stream
PolledAsOneShot ==
    /\ dRet.err = ""
    /\ dRet.exc = ""
    /\ dRet.f \in RecordBoundaries
    /\ dRet.f >= sCall.from
    /\ SameSnapshots(SnapshotsReturned, OneShotBetween(sCall.from, dRet.f))
    /\ dRet.f = sCall.from => sCall.from = Len(rfile)

\* C25: on a complete stream of format version 0, 1 or 2 and with any
\* budget, a first call without a stream and the calls after it, each with
\* the stream and the version the call before returned, return no error
\* and return, one after the other, the snapshots that a single decode of
\* the whole stream without a budget returns, in its order, until a call
\* decodes no record at the end of the stream.
C25_ResumedDecodingIsOneShotDecoding ==
    PollingCall /\ StreamComplete => PolledAsOneShot

\* What the code does keep: the same for the streams of versions 1 and 2
ResumedDecodingOfVersions1And2 ==
    PollingCall /\ StreamComplete /\ wver # 0 => PolledAsOneShot

\* A complete stream of three records in version 0 has been polled with a
\* budget of one second and the second call has been made
ResumedDecodingOfVersion0Called ==
    /\ PollingCall
    /\ StreamComplete
    /\ wver = 0
    /\ Len(sRecs.recs) = 3
    /\ sCall.f # NoNumber
    /\ sCall.fmt_version = 0
    /\ sCall.max_secs = 1

\* The record at which a call started, 0 when it started at none
RecordAt(from) ==
    LET ks == {k \in 1 .. Len(sRecs.recs) : sRecs.recs[k].start = from}
    IN  IF ks = {} THEN 0 ELSE MinOf(ks)

\* A polling call that started at record k has decoded that record at
\* least, and every snapshot it returned ends at most max_secs seconds
\* after that record
PolledWithinBudget(k) ==
    /\ dRet.err = ""
    /\ dRet.exc = ""
    /\ dRet.f >= sRecs.recs[k].end
    /\ SnapshotsReturned # <<>>
    /\ \A i \in 1 .. Len(SnapshotsReturned) :
          SnapshotsReturned[i].end_time - sRecs.recs[k].time
              <= sCall.max_secs * NsecPerSec

\* C27: on a complete stream, a budgeted call of record_to_damon_result
\* that starts at a record decodes at least that record, whatever its time
\* and whatever the budget, so that polling by resumed calls moves on at
\* every call until the end of the stream, and every snapshot that a call
\* returns ends at most max_secs seconds after the first record of that
\* call.
C27_BudgetedDecodingProgresses ==
    PollingCall /\ StreamComplete /\ RecordAt(sCall.from) # 0
    => PolledWithinBudget(RecordAt(sCall.from))

\* What the code does keep: the same for the streams of versions 1 and 2
\* when the first record of the call has a time other than 0
BudgetedDecodingOfTimedRecordsProgresses ==
    /\ PollingCall
    /\ StreamComplete
    /\ RecordAt(sCall.from) # 0
    /\ wver # 0
    /\ sRecs.recs[RecordAt(sCall.from)].time # 0
    => PolledWithinBudget(RecordAt(sCall.from))

\* A call with a budget of one second has started at a record of time 0
\* and has returned a snapshot that ends more than one second later
BudgetCountedFromSecondRecord ==
    /\ PollingCall
    /\ StreamComplete
    /\ RecordAt(sCall.from) # 0
    /\ sRecs.recs[RecordAt(sCall.from)].time = 0
    /\ sCall.max_secs = 1
    /\ dRet.err = ""
    /\ dRet.exc = ""
    /\ \E i \in 1 .. Len(SnapshotsReturned) :
          SnapshotsReturned[i].end_time > NsecPerSec

\* The tags of a pattern are tags of their dimensions
TagsValid(p) ==
    /\ p.nr_accesses_unit \in NrAccessesUnits
    /\ p.age_unit \in AgeUnits

\* The last conversion has left the pattern with both units as asked for
\* or as it was
BothOrNeitherConverted ==
    \/ scheme.access_pattern = pRet.before
    \/ /\ scheme.access_pattern.nr_accesses_unit = pRet.u1
       /\ scheme.access_pattern.age_unit = pRet.u2

\* C28: after any sequence of convert_nr_accesses_unit, convert_age_unit
\* and convert_for_units calls with any tags, nr_accesses_unit is percent or
\* sample_intervals and age_unit is usec or aggr_intervals; a call given
\* another tag fails and leaves the pattern as it was; a convert_for_units
\* call leaves both units converted or neither.
C28_UnitTagsStayValid ==
    /\ TagsValid(scheme.access_pattern)
    /\ pRet.op # "none"
       => /\ pRet.u1 \notin NrAccessesUnits \/ pRet.u2 \notin AgeUnits
             => pRet.exc # "" /\ scheme.access_pattern = pRet.before
          /\ BothOrNeitherConverted

\* What the code does keep: a call given two tags of their dimensions on a
\* pattern with such tags leaves the pattern with such tags and, when the
\* aggregation interval is not 0, with both units as asked for or as it was
UnitTagsOfValidCallsStayValid ==
    /\ pRet.op # "none"
    /\ TagsValid(pRet.before)
    /\ pRet.u1 \in NrAccessesUnits
    /\ pRet.u2 \in AgeUnits
    => /\ TagsValid(scheme.access_pattern)
       /\ intervals.aggr # 0 => BothOrNeitherConverted

\* convert_nr_accesses_unit has been given usec for a pattern in percent:
\* it has returned and the access counts are in usec
AccessCountsInUsec ==
    /\ pRet.op = "convert_nr_accesses_unit"
    /\ pRet.before.nr_accesses_unit = unit_percent
    /\ pRet.u1 = unit_usec
    /\ pRet.exc = ""
    /\ scheme.access_pattern.nr_accesses_unit = unit_usec
    /\ scheme.access_pattern.max_nr_accesses # pRet.before.max_nr_accesses

\* convert_for_units has raised after the conversion of the access counts
OneUnitConverted ==
    /\ pRet.op = "convert_for_units"
    /\ TagsValid(pRet.before)
    /\ pRet.exc = "ZeroDivisionError"
    /\ scheme.access_pattern.nr_accesses_unit = pRet.u1
    /\ pRet.before.nr_accesses_unit # pRet.u1
    /\ scheme.access_pattern.age_unit # pRet.u2

\* C26: for a result whose nr_snapshots is the length of the snapshot list
\* of every target, nr_snapshots is still the length of every list after
\* the pre-step of write_damon_result, so that the writer indexes the lists
\* only where they have a snapshot.
C26_SnapshotCountStaysConsistent ==
    /\ cOp = "write_damon_result"
    /\ EveryTargetHas(corig, corig.nr_snapshots)
    => /\ EveryTargetHas(mres, mres.nr_snapshots)
       /\ wExc # "IndexError"

\* What the code does keep: the same for results of at most one target,
\* and for results whose targets have two snapshots or more
SnapshotCountOfOneTargetStaysConsistent ==
    /\ cOp = "write_damon_result"
    /\ EveryTargetHas(corig, corig.nr_snapshots)
    /\ Len(corig.target_snapshots) <= 1 \/ corig.nr_snapshots >= 2
    => /\ EveryTargetHas(mres, mres.nr_snapshots)
       /\ wExc # "IndexError"

\* A result of two targets of one snapshot each has been written and
\* counts three snapshots for lists of two
SnapshotCountedPerTarget ==
    /\ cOp = "write_damon_result"
    /\ corig.nr_snapshots = 1
    /\ Len(corig.target_snapshots) = 2
    /\ mres.nr_snapshots = 3
    /\ EveryTargetHas(mres, 2)

\* Two times base - num / den are the same time
TimeSame(a, b) == a.base = b.base /\ a.num * b.den = b.num * a.den

\* What record_to_damon_result gives parse_damon_result_for to normalize
DecodedTargets == record_to_damon_result(rfile, NoNumber, NoNumber, NoNumber).result.target_snapshots

\* The snapshots of target i are as the normalization is said to leave them
NormalizedAsSaid(i) ==
    LET d == DecodedTargets[i].snapshots
        p == dRet.result.target_snapshots[i].snapshots
        n == Len(d)
    IN  IF n < 2 THEN p = d
        ELSE /\ p # <<>>
             /\ TimeSame(p[1].start_time,
                         TimeMinus(d[1].end_time,
                                   d[n].end_time - d[1].end_time, n - 1))
             /\ \A k \in 2 .. Len(p) : p[k].start_time = p[k - 1].end_time

\* C18: after parse_damon_result_for, every target with at least two
\* decoded snapshots, whatever the other targets hold and wherever it
\* stands in the mapping, has each snapshot after the first starting at
\* the end of the one before and the first starting at its end minus the
\* mean spacing (last end - first end) / (count - 1) of its own snapshots;
\* a target with fewer than two snapshots is left as decoded.
C18_TimingNormalizationPerTarget ==
    cPc = "parsed" /\ dRet.exc = "" /\ dRet.err = "" =>
        \A i \in 1 .. Len(DecodedTargets) : NormalizedAsSaid(i)

\* What the code does keep: the first target of the mapping is normalized
\* by its own mean spacing
TimingNormalizationOfFirstTarget ==
    cPc = "parsed" /\ dRet.exc = "" /\ dRet.err = "" /\ DecodedTargets # <<>> =>
        NormalizedAsSaid(1)

\* A file of two targets of two snapshots each has been parsed
TimingNormalizationOfTwoTargets ==
    /\ cPc = "parsed"
    /\ dRet.exc = "" /\ dRet.err = ""
    /\ Len(DecodedTargets) = 2
    /\ \A i \in 1 .. 2 : Len(DecodedTargets[i].snapshots) = 2

\* The snapshot list of target i after write_damon_result is as said
FakedAsSaid(i) ==
    LET o == corig.target_snapshots[i].snapshots
        a == mres.target_snapshots[i].snapshots
    IN  IF Len(o) = 1
        THEN /\ Len(a) = 2
             /\ a[1] = o[1]
             /\ a[2].start_time = o[1].end_time
             /\ a[2].end_time = o[1].end_time + (o[1].end_time - o[1].start_time)
             /\ a[2].target_id = o[1].target_id
             /\ Len(a[2].regions) = 1
             /\ a[2].regions[1].start = 0
             /\ a[2].regions[1].end = 0
             /\ a[2].regions[1].nr_accesses = -1
             /\ a[2].regions[1].age = -1
        ELSE a = o

\* C19: after write_damon_result, every target whose snapshot list had
\* exactly one snapshot has two, the appended one starting at the end of
\* the original, lasting as long as the original, having the same target
\* id and the single region (0, 0, -1, -1); the list of every other target
\* is unchanged.
C19_FakeSnapshotAppendedToSingletons ==
    cOp = "write_damon_result" =>
        /\ Len(mres.target_snapshots) = Len(corig.target_snapshots)
        /\ \A i \in 1 .. Len(corig.target_snapshots) :
              /\ mres.target_snapshots[i].tid = corig.target_snapshots[i].tid
              /\ FakedAsSaid(i)

\* A result of two targets of one snapshot each, the snapshot of the
\* second ending at 1000000007, has been written
C19_Witness ==
    /\ cOp = "write_damon_result"
    /\ Len(corig.target_snapshots) = 2
    /\ Len(corig.target_snapshots[2].snapshots) = 1
    /\ corig.target_snapshots[2].snapshots[1].end_time = 1000000007
    /\ Len(mres.target_snapshots[2].snapshots) = 2

(***************************************************************************)
(* perf_script_to_damon_result.  A text file is the sequence of its lines, *)
(* a line the sequence of its whitespace-separated fields.  The fields of  *)
(* a line of the damon_aggregated event are                                *)
(*   kdamond.0 4452 [000] <sec>.<usec>: damon:damon_aggregated:            *)
(*   target_id=<n> nr_regions=<n> <start>-<end>: <nr_accesses> [<age>]     *)
(* The time field is held as [sec, usec], the key=value fields as          *)
(* <<key, value>>, the address field as <<start, end>>, the access count   *)
(* as the number its digits spell and the age field as its characters.     *)
(***************************************************************************)
AggregatedEvent == "damon:damon_aggregated:"

\* int(float(fields[3][:-1]) * 1000000000).  The times of the model are
\* binary fractions of a second, for which the float product is exact.
PerfEndTime(field) == field.sec * NsecPerSec + field.usec * 1000

\* A line is passed over by its number of fields alone
LineSkippedByCount(fields) == ~(Len(fields) \in {9, 10})

\* if not len(fields) in [9, 10]: continue
\* if fields[4] != 'damon:damon_aggregated:': continue
LineSkipped(fields) ==
    \/ ~(Len(fields) \in {9, 10})
    \/ fields[5] # AggregatedEvent

\* return result, f.  none tells that result is None.
TextReturn(items, none, f) ==
    [result |-> ResultOf(items), none |-> none, f |-> f, exc |-> "",
     stream |-> f]

\* An exception leaves the call with the stream open after line f
TextRaise(f, exc) ==
    [result |-> ResultOf(<<>>), none |-> TRUE, f |-> f, exc |-> exc,
     stream |-> f]

\* '%s' % region.age
AgeField(age) ==
    IF age = NoAge THEN <<"N", "o", "n", "e">>
    ELSE IF age < 0 THEN <<"-">> \o Decimal(-age)
    ELSE Decimal(age)

\* int(text) takes the digits of an integer, with or without a sign
IsIntText(text) ==
    LET ds == IF text # <<>> /\ text[1] = "-" THEN Tail(text) ELSE text
    IN  ds # <<>> /\ \A i \in 1 .. Len(ds) : IsDigit(ds[i])

IntOfText(text) ==
    IF text[1] = "-" THEN -DigitsValue(Tail(text)) ELSE DigitsValue(text)

RECURSIVE ReadLines(_, _, _, _, _, _, _)
\* for line in f: ...  with the lines before line i read
ReadLines(lines, i, none, items, nr_read_regions, parse_start_time, max_secs) ==
    IF i > Len(lines)
    \* if max_secs == None: f.close()
    THEN TextReturn(items, none, IF max_secs = NoNumber THEN Closed ELSE Len(lines))
    ELSE
    LET fields == lines[i]
    IN  IF LineSkipped(fields)
        THEN ReadLines(lines, i + 1, none, items, nr_read_regions,
                       parse_start_time, max_secs)
        ELSE
        LET end_time == PerfEndTime(fields[4])
            \* target_id = int(fields[5].split('=')[1])
            target_id == fields[6][2]
            \* if not target_id in result.target_snapshots: ... = []
            items1 == IF ItemOf(items, target_id) = 0
                      THEN Append(items, [tid |-> target_id, snapshots |-> <<>>])
                      ELSE items
            k == ItemOf(items1, target_id)
            target_snapshots == items1[k].snapshots
            start_time == IF target_snapshots = <<>> THEN NoNumber
                          ELSE target_snapshots[Len(target_snapshots)].end_time
            nr_regions == fields[7][2]
            addrs == fields[8]
            nr_accesses == fields[9]
            \* age = int(fields[9]) if len(fields) == 10 else None
            age == IF Len(fields) = 10 THEN IntOfText(fields[10]) ELSE NoAge
            \* if nr_read_regions == 0: target_snapshots.append(snapshot)
            appended == IF nr_read_regions = 0
                        THEN Append(target_snapshots,
                                    DAMONSnapshot(start_time, end_time, target_id))
                        ELSE target_snapshots
            \* snapshot = target_snapshots[-1]; snapshot.regions.append(...)
            filled == [appended EXCEPT
                         ![Len(appended)].regions =
                             Append(@, DAMONRegion(addrs[1], addrs[2],
                                                   nr_accesses, age))]
            read == nr_read_regions + 1
        IN  IF /\ parse_start_time # NoNumber
               /\ max_secs # NoNumber
               /\ end_time - parse_start_time > max_secs * NsecPerSec
            \* break, with the over-read line consumed
            THEN TextReturn(items, FALSE, i)
            ELSE IF Len(fields) = 10 /\ ~IsIntText(fields[10])
            THEN TextRaise(i, "ValueError")
            ELSE IF appended = <<>>
            THEN TextRaise(i, "IndexError")
            ELSE ReadLines(lines, i + 1, FALSE,
                           [items1 EXCEPT ![k].snapshots = filled],
                           IF read = nr_regions THEN 0 ELSE read,
                           IF parse_start_time = NoNumber THEN end_time
                           ELSE parse_start_time,
                           max_secs)

\* perf_script_to_damon_result(file_path, f, max_secs) for the file of the
\* lines `file`: f is None (NoNumber) or the number of lines already read
perf_script_to_damon_result(file, f, max_secs) ==
    ReadLines(file, IF f = NoNumber THEN 1 ELSE f + 1, TRUE, <<>>, 0,
              NoNumber, max_secs)

(***************************************************************************)
(* write_damon_perf_script, and update_result_file with the perf script    *)
(* format: a parsed result is written as text and the text is decoded.     *)
(***************************************************************************)
\* '%f:' % (snapshot.end_time / 1000000000.0): the seconds with six
\* decimals, the nearest to the time
TimeField(end_time) ==
    LET usecs == (end_time + 500) \div 1000
    IN  [sec |-> usecs \div 1000000, usec |-> usecs % 1000000]

\* The line of one region of a snapshot
RegionLine(snapshot, region) ==
    <<"kdamond.x", "xxxx", "xxxx", TimeField(snapshot.end_time), AggregatedEvent,
      <<"target_id", snapshot.target_id>>,
      <<"nr_regions", Len(snapshot.regions)>>,
      <<region.start, region.end>>, region.nr_accesses, AgeField(region.age)>>

\* for region in snapshot.regions: f.write(...)
SnapshotLines(snapshot) ==
    [k \in 1 .. Len(snapshot.regions) |-> RegionLine(snapshot, snapshot.regions[k])]

RECURSIVE TargetsLines(_, _)
\* for tid in result.target_snapshots: the lines of snapshot snapshot_idx
\* of each target, as far as the targets have one
TargetsLines(items, snapshot_idx) ==
    IF items = <<>> THEN [lines |-> <<>>, exc |-> ""]
    ELSE IF snapshot_idx > Len(Head(items).snapshots)
    THEN [lines |-> <<>>, exc |-> "IndexError"]
    ELSE LET rest == TargetsLines(Tail(items), snapshot_idx)
         IN  [lines |-> SnapshotLines(Head(items).snapshots[snapshot_idx])
                           \o rest.lines,
              exc |-> rest.exc]

RECURSIVE ResultLines(_, _)
\* for snapshot_idx in range(result.nr_snapshots), from snapshot_idx on
ResultLines(result, snapshot_idx) ==
    IF snapshot_idx > result.nr_snapshots THEN [lines |-> <<>>, exc |-> ""]
    ELSE LET now == TargetsLines(result.target_snapshots, snapshot_idx)
         IN  IF now.exc # "" THEN now
             ELSE LET rest == ResultLines(result, snapshot_idx + 1)
                  IN  [lines |-> now.lines \o rest.lines, exc |-> rest.exc]

\* write_damon_perf_script(result, file_path, file_permission): the lines
\* written and the exception raised.  range(None) raises TypeError.
write_damon_perf_script(result) ==
    IF result.nr_snapshots = NoNumber THEN [lines |-> <<>>, exc |-> "TypeError"]
    ELSE ResultLines(result, 1)

\* update_result_file(path, file_type_perf_script, permission) on the
\* file parsed: write_damon_result appends the fake snapshots and calls
\* write_damon_perf_script
CodecWritePerfScript ==
    /\ cPc = "parsed"
    /\ dRet.exc = ""
    /\ dRet.err = ""
    /\ LET faked == AppendFakeSnapshots(dRet.result, 1)
           w == write_damon_perf_script(faked)
       IN  /\ mres' = faked
           /\ rfile' = w.lines
           /\ wExc' = w.exc
    /\ cOp' = "write_damon_perf_script"
    /\ cPc' = "rewritten"
    /\ UNCHANGED <<corig, wver, dRet, fh, sCall, sRecs>>
    /\ UNCHANGED codecOthers

\* perf_script_to_damon_result(path, None, None) on the text written
CodecDecodeText ==
    /\ cPc = "rewritten"
    /\ wExc = ""
    /\ dRet' = perf_script_to_damon_result(rfile, NoNumber, NoNumber)
    /\ cPc' = "redecoded"
    /\ UNCHANGED <<mres, corig, cOp, wver, wExc, rfile, fh, sCall, sRecs>>
    /\ UNCHANGED codecOthers

ReencodeNext ==
    \/ CodecWriteRecord
    \/ CodecWriteResult
    \/ CodecParse
    \/ CodecWritePerfScript
    \/ CodecDecodeText

\* The result written as text came from a binary record and has a target,
\* and two snapshots or more for every target
ReencodedFromRecord ==
    /\ cPc \in {"rewritten", "redecoded"}
    /\ mres.target_snapshots # <<>>
    /\ \A i \in 1 .. Len(mres.target_snapshots) :
          /\ Len(mres.target_snapshots[i].snapshots) >= 2
          /\ \A k \in 1 .. Len(mres.target_snapshots[i].snapshots) :
                \A j \in 1 .. Len(mres.target_snapshots[i].snapshots[k].regions) :
                    mres.target_snapshots[i].snapshots[k].regions[j].age = NoAge

\* The targets decoded from the text have the snapshots written, in their
\* order, each with the regions (start, end, access count) written
SameTargetRegions(items1, items2) ==
    /\ Len(items1) = Len(items2)
    /\ \A i \in 1 .. Len(items1) :
          /\ items1[i].tid = items2[i].tid
          /\ Len(items1[i].snapshots) = Len(items2[i].snapshots)
          /\ \A k \in 1 .. Len(items1[i].snapshots) :
                SameRegions(items1[i].snapshots[k].regions,
                            items2[i].snapshots[k].regions)

\* C30: for a result decoded from a binary record (no ages) with two
\* snapshots or more for every target, write_damon_perf_script followed by
\* perf_script_to_damon_result succeeds and gives, for every target, as
\* many snapshots in the same order, each with the same regions (start,
\* end, access count): every snapshot holds the regions its lines declare.
C30_ReencodingAsTextPreservesData ==
    ReencodedFromRecord
    => /\ wExc = ""
       /\ cPc = "redecoded"
          => /\ dRet.exc = ""
             /\ SameTargetRegions(dRet.result.target_snapshots,
                                  mres.target_snapshots)

\* The lines of the regions of a result, snapshot by snapshot
RECURSIVE LinesOfResult(_, _)
LinesOfResult(items, k) ==
    IF items = <<>> \/ k > Len(items[1].snapshots) THEN <<>>
    ELSE LET RECURSIVE Of(_)
             Of(i) == IF i > Len(items) THEN <<>>
                      ELSE SnapshotLines(items[i].snapshots[k]) \o Of(i + 1)
         IN  Of(1) \o LinesOfResult(items, k + 1)

\* What the code does keep: the result is written, one line for each
\* region with its target, start, end and access count, snapshot by
\* snapshot; the decoder raises ValueError at the age of the first line,
\* and returns no result when there is no line
ReencodingAsTextWritesEveryRegion ==
    ReencodedFromRecord
    => /\ wExc = ""
       /\ rfile = LinesOfResult(mres.target_snapshots, 1)
       /\ \A n \in 1 .. Len(rfile) : rfile[n][10] = AgeField(NoAge)
       /\ cPc = "redecoded"
          => IF rfile = <<>> THEN dRet.exc = "" /\ dRet.none
             ELSE dRet.exc = "ValueError"

\* A result of two targets with two snapshots each, with regions in every
\* snapshot, has been written as text, and the decoder has raised
ReencodedTextNotDecoded ==
    /\ ReencodedFromRecord
    /\ cPc = "redecoded"
    /\ Len(mres.target_snapshots) = 2
    /\ Len(rfile) >= 4
    /\ dRet.exc = "ValueError"

(***************************************************************************)
(* A text file is decoded.                                                 *)
(***************************************************************************)
MaxTextLines == 4    \* lines of a text file

\* The fields of a line of the event
PerfLine(sec, usec, target_id, nr_regions, start, end, nr_accesses) ==
    <<"kdamond.0", "4452", "[000]", [sec |-> sec, usec |-> usec],
      AggregatedEvent, <<"target_id", target_id>>, <<"nr_regions", nr_regions>>,
      <<start, end>>, nr_accesses>>

TextLineKinds == 1 .. 9

\* Lines of the event with and without the age field, for snapshots of one
\* and of two regions of targets 300 and 2, and lines of other shapes: an
\* empty line, a line cut after 8 fields, lines of another event with 9 and
\* with 10 fields, and a line of 11 fields
TextLine(kind) ==
    CASE kind = 1 -> Append(PerfLine(0, 500000, 300, 1, 100, 200, 3), Decimal(7))
      [] kind = 2 -> PerfLine(1, 0, 300, 2, 0, 4096, 0)
      [] kind = 3 -> Append(PerfLine(1, 0, 300, 2, 4096, 70000, 5), Decimal(7))
      [] kind = 4 -> Append(PerfLine(2, 0, 2, 1, 100, 200, 1), Decimal(0))
      [] kind = 5 -> <<>>
      [] kind = 6 -> SubSeq(PerfLine(1, 0, 300, 2, 4096, 70000, 5), 1, 8)
      [] kind = 7 -> [PerfLine(1, 0, 300, 2, 0, 4096, 0) EXCEPT
                        ![5] = "sched:sched_switch:"]
      [] kind = 8 -> [Append(PerfLine(2, 0, 2, 1, 100, 200, 1), Decimal(0)) EXCEPT
                        ![5] = "sched:sched_switch:"]
      [] kind = 9 -> Append(Append(PerfLine(0, 500000, 300, 1, 100, 200, 3), Decimal(7)), Decimal(0))

TextBudgets == {0, 1}    \* max_secs

TextInit ==
    /\ cPc = "text"
    /\ \E n \in 0 .. MaxTextLines :
          \E kinds \in [1 .. n -> TextLineKinds] :
              rfile = [i \in 1 .. n |-> TextLine(kinds[i])]
    /\ mres = ResultOf(<<>>)
    /\ corig = ResultOf(<<>>)
    /\ cOp = ""
    /\ wver = NoNumber
    /\ wExc = ""
    /\ dRet = NoReturn
    /\ StreamIdle

\* perf_script_to_damon_result(path, None, max_secs)
TextDecode ==
    /\ cPc = "text"
    /\ \E max_secs \in TextBudgets \cup {NoNumber} :
          /\ dRet' = perf_script_to_damon_result(rfile, NoNumber, max_secs)
          /\ sCall' = [from |-> 0, max_secs |-> max_secs, f |-> NoNumber,
                       fmt_version |-> NoNumber]
    /\ cOp' = "perf_script_to_damon_result"
    /\ UNCHANGED <<cPc, mres, corig, wver, wExc, rfile, fh, sRecs>>
    /\ UNCHANGED codecOthers

TextNext == TextDecode

\* A line that the text decoder is said to read: 9 or 10 fields, the fifth
\* the name of the event
IsEventLine(fields) ==
    /\ Len(fields) \in {9, 10}
    /\ fields[5] = AggregatedEvent

\* C20: the text decoder passes over every line that has not 9 or 10
\* fields or whose fifth field is not 'damon:damon_aggregated:': it does
\* not fail on it, and it returns what it returns for the file without
\* such lines, the same snapshots of the same regions for every target.
C20_TextDecodeSkipsOtherLines ==
    cOp = "perf_script_to_damon_result" =>
        LET r == perf_script_to_damon_result(SelectSeq(rfile, IsEventLine),
                                             NoNumber, sCall.max_secs)
        IN  /\ dRet.exc = r.exc
            /\ dRet.none = r.none
            /\ dRet.result = r.result
            /\ SelectSeq(rfile, IsEventLine) = <<>>
                  => dRet.exc = "" /\ dRet.none /\ dRet.result = ResultOf(<<>>)

\* The two lines of a snapshot of two regions, with a line cut after 8
\* fields and a line of another event between them, have been decoded to
\* one snapshot of two regions
C20_Witness ==
    /\ cOp = "perf_script_to_damon_result"
    /\ Len(rfile) = 4
    /\ IsEventLine(rfile[1])
    /\ Len(rfile[2]) = 8
    /\ Len(rfile[3]) = 9 /\ ~IsEventLine(rfile[3])
    /\ IsEventLine(rfile[4])
    /\ dRet.exc = ""
    /\ Len(dRet.result.target_snapshots) = 1
    /\ Len(dRet.result.target_snapshots[1].snapshots) = 1
    /\ Len(dRet.result.target_snapshots[1].snapshots[1].regions) = 2

(***************************************************************************)
(* Texts (_damo_fmt_str).  A text is a sequence of tokens: a digit, a      *)
(* comma, a blank, or a whole word such as a unit or a literal piece of a  *)
(* format string.  Numbers are written and read digit by digit.            *)
(*                                                                         *)
(* Raw mode writes the plain integer.  Human mode writes the number in     *)
(* groups of three digits and names its unit; it loses nothing.  The       *)
(* parsers read a bare number, a grouped number and a number with a unit   *)
(* they know, and fail on any other unit.                                  *)
(***************************************************************************)
\* What a parser gives for a text that is no number, or has a unit it does
\* not know: the exception it raises
InvalidNumber == -1
InvalidUnit == -2

IsComma(c) == c = ","
NotComma(c) == ~IsComma(c)

\* One field as a number: digits, possibly grouped
ParseNumber(field) ==
    LET ds == SelectSeq(field, NotComma)
    IN  IF ds # <<>> /\ \A i \in 1..Len(ds) : IsDigit(ds[i])
        THEN DigitsValue(ds) ELSE InvalidNumber

RECURSIVE Split(_)
\* txt.split()
Split(txt) ==
    LET blanks == {i \in 1..Len(txt) : txt[i] = " "}
    IN  IF txt = <<>> THEN <<>>
        ELSE IF blanks = {} THEN <<txt>>
        ELSE LET i == MinOf(blanks)
                 rest == Split(SubSeq(txt, i + 1, Len(txt)))
             IN  IF i = 1 THEN rest ELSE <<SubSeq(txt, 1, i - 1)>> \o rest

\* A number with one of the units of a table of <<unit, factor>>, or a bare
\* number in the unit of factor 1
TextToScaled(txt, units) ==
    LET fields == Split(txt)
    IN  IF Len(fields) = 1 THEN ParseNumber(fields[1])
        ELSE IF Len(fields) = 2 /\ \E u \in units : fields[2] = <<u[1]>>
        THEN LET u == CHOOSE u \in units : fields[2] = <<u[1]>>
                 n == ParseNumber(fields[1])
             IN  IF n < 0 THEN n ELSE n * u[2]
        ELSE IF Len(fields) = 2 THEN InvalidUnit
        ELSE InvalidNumber

UsecUnits == {<<"us", 1>>, <<"ms", 1000>>, <<"s", 1000000>>}
MsecUnits == {<<"ms", 1>>, <<"s", 1000>>}
NsecUnits == {<<"ns", 1>>, <<"us", 1000>>}
ByteUnits == {<<"B", 1>>, <<"KiB", 1024>>}
PercentUnits == {<<"%", 1>>}
PermilUnits == {<<"permil", 1>>, <<"%", 10>>}

text_to_us(txt) == TextToScaled(txt, UsecUnits)
text_to_ms(txt) == TextToScaled(txt, MsecUnits)
text_to_bytes(txt) == TextToScaled(txt, ByteUnits)
text_to_percent(txt) == TextToScaled(txt, PercentUnits)
text_to_permil(txt) == TextToScaled(txt, PermilUnits)

text_to_nr(txt) ==
    LET fields == Split(txt)
    IN  IF Len(fields) = 1 THEN ParseNumber(fields[1]) ELSE InvalidNumber

\* A number and the word after it
text_to_nr_unit(txt) ==
    LET fields == Split(txt)
    IN  IF Len(fields) = 2 /\ Len(fields[2]) = 1
        THEN [nr |-> ParseNumber(fields[1]), unit |-> fields[2][1]]
        ELSE [nr |-> InvalidNumber, unit |-> ""]

\* text_to_bool of a bool is that bool
text_to_bool(matching) == matching

format_nr(nr, raw) == IF raw THEN Decimal(nr) ELSE Grouped(Decimal(nr))

\* A number in a unit: the integer in raw mode, the grouped number and its
\* unit in human mode
FormatWithUnit(nr, raw, unit) ==
    IF raw THEN Decimal(nr) ELSE Grouped(Decimal(nr)) \o <<" ", unit>>

format_sz(sz_bytes, raw) == FormatWithUnit(sz_bytes, raw, "B")
format_time_ns(time_ns, raw) == FormatWithUnit(time_ns, raw, "ns")
format_time_us(time_us, raw) == FormatWithUnit(time_us, raw, "us")
format_time_us_exact(time_us, raw) == FormatWithUnit(time_us, raw, "us")
format_time_ms(time_ms, raw) == FormatWithUnit(time_ms, raw, "ms")
format_time_ms_exact(time_ms, raw) == FormatWithUnit(time_ms, raw, "ms")
format_permil(permil, raw) == FormatWithUnit(permil, raw, "permil")

format_addr_range(start, end, raw) ==
    <<"[">> \o format_sz(start, raw) \o <<", ">> \o format_sz(end, raw)
    \o <<")">>

\* indent_lines: every line of a text led by that many blanks
indent_lines(lines, indent_width) ==
    [i \in 1..Len(lines) |-> [j \in 1..indent_width |-> " "] \o lines[i]]

(***************************************************************************)
(* The configuration tree and its key/value form.  A kvpairs is the        *)
(* OrderedDict as the sequence of its <<key, value>> items.  A to_str is   *)
(* one line, or the sequence of the lines that '\n'.join puts together.    *)
(* An inverse constructor is two definitions: the object it returns, and   *)
(* the exception it raises instead ("" if it returns).                     *)
(***************************************************************************)
KvHas(kv, key) == \E i \in 1..Len(kv) : kv[i][1] = key

\* kv[key] where the key is present; what it raises otherwise is KeyError
\* below, and the value stands for none
KvGet(kv, key) ==
    IF KvHas(kv, key) THEN kv[CHOOSE i \in 1..Len(kv) : kv[i][1] = key][2]
    ELSE <<>>

KvHasAll(kv, keys) == \A key \in keys : KvHas(kv, key)

Raised_(exc) == exc # ""

\* The first exception of the steps of a constructor, in their order; "" if
\* none raised
FirstRaised(excs) == Head(SelectSeq(excs, Raised_) \o <<"">>)

\* A lookup that raises nothing for an absent key
KeyErrorIgnored(kv, keys) == ""

\* What kv[key] raises
KeyError(kv, keys) == IF KvHasAll(kv, keys) THEN "" ELSE "KeyError"

Negative(number) == number < 0

\* What the parsers raised on the texts that gave these numbers
ParseError(numbers) ==
    IF SelectSeq(numbers, Negative) = <<>> THEN "" ELSE "Exception"

\* The lines of a list of texts, one after the other
RECURSIVE Lines(_)
Lines(texts) ==
    IF texts = <<>> THEN <<>> ELSE Head(texts) \o Lines(Tail(texts))

\* A pid that is None
NonePid == -1

\* '%s' % pid
StrOfPid(pid) == IF pid = NonePid THEN <<"None">> ELSE Decimal(pid)

\* ---- DamonIntervals ----
DamonIntervals_to_str(self, raw) ==
    <<"sample ">> \o format_time_us(self.sample, raw)
    \o <<", aggr ">> \o format_time_us(self.aggr, raw)
    \o <<", update ">> \o format_time_us(self.ops_update, raw)

DamonIntervals_eq(self, other) ==
    DamonIntervals_to_str(self, FALSE) = DamonIntervals_to_str(other, FALSE)

DamonIntervals_to_kvpairs(self, raw) ==
    << <<"sample_us", format_time_us(self.sample, raw)>>,
       <<"aggr_us", format_time_us(self.aggr, raw)>>,
       <<"ops_update_us", format_time_us(self.ops_update, raw)>> >>

\* The object kvpairs_to_DamonIntervals returns
kvpairs_to_DamonIntervals(kvpairs) ==
    DamonIntervals(text_to_us(KvGet(kvpairs, "sample_us")),
                   text_to_us(KvGet(kvpairs, "aggr_us")),
                   text_to_us(KvGet(kvpairs, "ops_update_us")))

\* The exception kvpairs_to_DamonIntervals raises, "" if it returns
kvpairs_to_DamonIntervals_exc(kvpairs) ==
    IF ~KvHasAll(kvpairs, {"sample_us", "aggr_us", "ops_update_us"})
    THEN "KeyError"
    ELSE ParseError(<<text_to_us(KvGet(kvpairs, "sample_us")),
                      text_to_us(KvGet(kvpairs, "aggr_us")),
                      text_to_us(KvGet(kvpairs, "ops_update_us"))>>)

\* ---- DamonNrRegionsRange ----
DamonNrRegionsRange(min_, max_) == [minimum |-> min_, maximum |-> max_]

DamonNrRegionsRange_to_str(self, raw) ==
    <<"[">> \o format_nr(self.minimum, raw) \o <<", ">>
    \o format_nr(self.maximum, raw) \o <<"]">>

DamonNrRegionsRange_eq(self, other) ==
    DamonNrRegionsRange_to_str(self, FALSE)
        = DamonNrRegionsRange_to_str(other, FALSE)

DamonNrRegionsRange_to_kvpairs(self, raw) ==
    << <<"min", format_nr(self.minimum, raw)>>,
       <<"max", format_nr(self.maximum, raw)>> >>

kvpairs_to_DamonNrRegionsRange(kvpairs) ==
    DamonNrRegionsRange(text_to_nr(KvGet(kvpairs, "min")),
                        text_to_nr(KvGet(kvpairs, "max")))

kvpairs_to_DamonNrRegionsRange_exc(kvpairs) ==
    IF ~KvHasAll(kvpairs, {"min", "max"}) THEN "KeyError"
    ELSE ParseError(<<text_to_nr(KvGet(kvpairs, "min")),
                      text_to_nr(KvGet(kvpairs, "max"))>>)

\* ---- DamonRegion ----
DamonRegion(start, end) == [start |-> start, end |-> end]

DamonRegion_to_str(self, raw) == format_addr_range(self.start, self.end, raw)

DamonRegion_eq(self, other) ==
    DamonRegion_to_str(self, FALSE) = DamonRegion_to_str(other, FALSE)

DamonRegion_to_kvpairs(self, raw) ==
    << <<"start", format_nr(self.start, raw)>>,
       <<"end", format_nr(self.end, raw)>> >>

kvpairs_to_DamonRegion(kvpairs) ==
    DamonRegion(text_to_bytes(KvGet(kvpairs, "start")),
                text_to_bytes(KvGet(kvpairs, "end")))

kvpairs_to_DamonRegion_exc(kvpairs) ==
    IF ~KvHasAll(kvpairs, {"start", "end"}) THEN "KeyError"
    ELSE ParseError(<<text_to_bytes(KvGet(kvpairs, "start")),
                      text_to_bytes(KvGet(kvpairs, "end"))>>)

\* ---- DamonTarget ----
DamonTarget(name, pid, regions) ==
    [name |-> name, pid |-> pid, regions |-> regions]

DamonTarget_to_str(self, raw) ==
    << <<self.name, " (pid: ">> \o StrOfPid(self.pid) \o <<")">> >>
    \o [i \in 1..Len(self.regions) |->
            <<"region ">> \o DamonRegion_to_str(self.regions[i], raw)]

DamonTarget_eq(self, other) ==
    DamonTarget_to_str(self, FALSE) = DamonTarget_to_str(other, FALSE)

\* A mapping of a target that begins with the pid
DamonTarget_to_kvpairs_pid_first(self, raw) ==
    << <<"pid", self.pid>>, <<"name", self.name>>,
       <<"regions", [i \in 1..Len(self.regions) |->
                        DamonRegion_to_kvpairs(self.regions[i], raw)]>> >>

DamonTarget_to_kvpairs(self, raw) ==
    << <<"name", self.name>>, <<"pid", self.pid>>,
       <<"regions", [i \in 1..Len(self.regions) |->
                        DamonRegion_to_kvpairs(self.regions[i], raw)]>> >>

kvpairs_to_DamonTarget(kvpairs) ==
    DamonTarget(KvGet(kvpairs, "name"), KvGet(kvpairs, "pid"),
                [i \in 1..Len(KvGet(kvpairs, "regions")) |->
                    kvpairs_to_DamonRegion(KvGet(kvpairs, "regions")[i])])

kvpairs_to_DamonTarget_exc(kvpairs) ==
    IF ~KvHasAll(kvpairs, {"name", "pid", "regions"}) THEN "KeyError"
    ELSE FirstRaised([i \in 1..Len(KvGet(kvpairs, "regions")) |->
                        kvpairs_to_DamonRegion_exc(KvGet(kvpairs, "regions")[i])])

\* ---- DamosAccessPattern ----
\* The unit of nr_accesses as the texts have it
NrAccessesUnitText(self) ==
    IF self.nr_accesses_unit = unit_percent THEN "%" ELSE self.nr_accesses_unit

\* An age as to_kvpairs would write it, had it no branch for aggr_intervals
AgeTextInUsec(self, age, raw) == format_time_us_exact(age, raw)

\* An age as to_str and to_kvpairs write it
AgeText(self, age, raw) ==
    IF self.age_unit = unit_usec THEN format_time_us_exact(age, raw)
    ELSE format_nr(age, raw) \o <<" ", self.age_unit>>

DamosAccessPattern_to_str(self, raw) ==
    << <<"sz: [">> \o format_sz(self.min_sz_bytes, raw) \o <<", ">>
           \o format_sz(self.max_sz_bytes, raw) \o <<"]">>,
       <<"nr_accesses: [">> \o format_nr(self.min_nr_accesses, raw)
           \o <<" ", NrAccessesUnitText(self), ", ">>
           \o format_nr(self.max_nr_accesses, raw)
           \o <<" ", NrAccessesUnitText(self), "]">>,
       <<"age: [">> \o AgeText(self, self.min_age, raw) \o <<", ">>
           \o AgeText(self, self.max_age, raw) \o <<"]">> >>

DamosAccessPattern_to_kvpairs(self, raw) ==
    LET unit == NrAccessesUnitText(self)
        min_nr_accesses == format_nr(self.min_nr_accesses, raw) \o <<" ", unit>>
        max_nr_accesses == format_nr(self.max_nr_accesses, raw) \o <<" ", unit>>
    IN  << <<"min_sz_bytes", format_sz(self.min_sz_bytes, raw)>>,
           <<"max_sz_bytes", format_sz(self.max_sz_bytes, raw)>>,
           <<"min_nr_accesses", min_nr_accesses>>,
           <<"max_nr_accesses", max_nr_accesses>>,
           <<"min_age", AgeText(self, self.min_age, raw)>>,
           <<"max_age", AgeText(self, self.max_age, raw)>> >>

\* The two texts of a range as numbers of the first unit, if both parse
\* with it (the try block), else as numbers with a unit of their own (the
\* except block)
RangeWithUnit(first, first_unit, min_text, max_text, what) ==
    IF ParseError(first) = ""
    THEN [min |-> first[1], max |-> first[2], unit |-> first_unit, exc |-> ""]
    ELSE [min |-> text_to_nr_unit(min_text).nr,
          max |-> text_to_nr_unit(max_text).nr,
          unit |-> text_to_nr_unit(min_text).unit,
          exc |-> FirstRaised(<<ParseError(<<text_to_nr_unit(min_text).nr,
                                             text_to_nr_unit(max_text).nr>>),
                                IF text_to_nr_unit(min_text).unit
                                       # text_to_nr_unit(max_text).unit
                                THEN what ELSE "">>)]

\* nr_accesses of the kvpairs, its unit and what reading it raised
NrAccessesOf(kv) ==
    RangeWithUnit(<<text_to_percent(KvGet(kv, "min_nr_accesses")),
                    text_to_percent(KvGet(kv, "max_nr_accesses"))>>,
                  unit_percent, KvGet(kv, "min_nr_accesses"),
                  KvGet(kv, "max_nr_accesses"),
                  "nr_accesses units should be same")

\* age of the kvpairs, its unit and what reading it raised
AgeOf(kv) ==
    RangeWithUnit(<<text_to_us(KvGet(kv, "min_age")),
                    text_to_us(KvGet(kv, "max_age"))>>,
                  unit_usec, KvGet(kv, "min_age"), KvGet(kv, "max_age"),
                  "age units should be same")

WithRanges(sz_bytes, nr, age) ==
    DamosAccessPattern(sz_bytes, <<nr.min, nr.max>>, nr.unit,
                       <<age.min, age.max>>, age.unit)

kvpairs_to_DamosAccessPattern(kv) ==
    WithRanges(<<text_to_bytes(KvGet(kv, "min_sz_bytes")),
                 text_to_bytes(KvGet(kv, "max_sz_bytes"))>>,
               NrAccessesOf(kv), AgeOf(kv))

kvpairs_to_DamosAccessPattern_exc(kv) ==
    IF ~KvHasAll(kv, {"min_sz_bytes", "max_sz_bytes", "min_nr_accesses",
                      "max_nr_accesses", "min_age", "max_age"})
    THEN "KeyError"
    ELSE FirstRaised(<<
            NrAccessesOf(kv).exc,
            AgeOf(kv).exc,
            ParseError(<<text_to_bytes(KvGet(kv, "min_sz_bytes")),
                         text_to_bytes(KvGet(kv, "max_sz_bytes"))>>),
            IF NrAccessesOf(kv).unit \in NrAccessesUnits THEN ""
            ELSE "invalid access pattern nr_accesses_unit",
            IF AgeOf(kv).unit \in AgeUnits THEN ""
            ELSE "invalid access pattern age_unit">>)

\* ---- DamosQuotas ----
DamosQuotas_to_str(self, raw) ==
    << format_sz(self.time_ms * 1000000, raw) \o <<" / ">>
           \o format_time_ns(self.sz_bytes, raw) \o <<" per ">>
           \o format_time_ms(self.reset_interval_ms, raw),
       <<"priority: sz ">> \o format_permil(self.weight_sz_permil, raw)
           \o <<", nr_accesses ">>
           \o format_permil(self.weight_nr_accesses_permil, raw)
           \o <<", age ">> \o format_permil(self.weight_age_permil, raw) >>

DamosQuotas_to_kvpairs(self, raw) ==
    << <<"time_ms", format_time_ms_exact(self.time_ms, raw)>>,
       <<"sz_bytes", format_sz(self.sz_bytes, raw)>>,
       <<"reset_interval_ms", format_time_ms_exact(self.reset_interval_ms, raw)>>,
       <<"weight_sz_permil", format_permil(self.weight_sz_permil, raw)>>,
       <<"weight_nr_accesses_permil",
         format_permil(self.weight_nr_accesses_permil, raw)>>,
       <<"weight_age_permil", format_permil(self.weight_age_permil, raw)>> >>

kvpairs_to_DamosQuotas(kv) ==
    DamosQuotas(text_to_ms(KvGet(kv, "time_ms")),
                text_to_bytes(KvGet(kv, "sz_bytes")),
                text_to_ms(KvGet(kv, "reset_interval_ms")),
                text_to_permil(KvGet(kv, "weight_sz_permil")),
                text_to_permil(KvGet(kv, "weight_nr_accesses_permil")),
                text_to_permil(KvGet(kv, "weight_age_permil")))

kvpairs_to_DamosQuotas_exc(kv) ==
    IF ~KvHasAll(kv, {"time_ms", "sz_bytes", "reset_interval_ms",
                      "weight_sz_permil", "weight_nr_accesses_permil",
                      "weight_age_permil"})
    THEN "KeyError"
    ELSE ParseError(<<text_to_ms(KvGet(kv, "time_ms")),
                      text_to_bytes(KvGet(kv, "sz_bytes")),
                      text_to_ms(KvGet(kv, "reset_interval_ms")),
                      text_to_permil(KvGet(kv, "weight_sz_permil")),
                      text_to_permil(KvGet(kv, "weight_nr_accesses_permil")),
                      text_to_permil(KvGet(kv, "weight_age_permil"))>>)

\* ---- DamosWatermarks ----
DamosWatermarks_to_str(self, raw) ==
    << format_permil(self.high_permil, raw) \o <<"/">>
           \o format_permil(self.mid_permil, raw) \o <<"/">>
           \o format_permil(self.low_permil, raw),
       <<"metric ", self.metric, ", interval ">>
           \o format_time_us(self.interval_us, raw) >>

DamosWatermarks_to_kvpairs(self, raw) ==
    << <<"metric", self.metric>>,
       <<"interval_us", format_time_us_exact(self.interval_us, raw)>>,
       <<"high_permil", format_permil(self.high_permil, raw)>>,
       <<"mid_permil", format_permil(self.mid_permil, raw)>>,
       <<"low_permil", format_permil(self.low_permil, raw)>> >>

kvpairs_to_DamosWatermarks(kv) ==
    DamosWatermarks(KvGet(kv, "metric"), text_to_us(KvGet(kv, "interval_us")),
                    text_to_permil(KvGet(kv, "high_permil")),
                    text_to_permil(KvGet(kv, "mid_permil")),
                    text_to_permil(KvGet(kv, "low_permil")))

kvpairs_to_DamosWatermarks_exc(kv) ==
    IF ~KvHasAll(kv, {"metric", "interval_us", "high_permil", "mid_permil",
                      "low_permil"})
    THEN "KeyError"
    ELSE ParseError(<<text_to_us(KvGet(kv, "interval_us")),
                      text_to_permil(KvGet(kv, "high_permil")),
                      text_to_permil(KvGet(kv, "mid_permil")),
                      text_to_permil(KvGet(kv, "low_permil"))>>)

\* ---- DamosFilter ----
DamosFilter(name, filter_type, memcg_path, matching) ==
    [name |-> name, filter_type |-> filter_type, memcg_path |-> memcg_path,
     matching |-> text_to_bool(matching)]

DamosFilter_to_kvpairs(self, raw) ==
    << <<"name", self.name>>, <<"filter_type", self.filter_type>>,
       <<"memcg_path", self.memcg_path>>, <<"matching", self.matching>> >>

kvpairs_to_DamosFilter(kv) ==
    DamosFilter(KvGet(kv, "name"), KvGet(kv, "filter_type"),
                IF KvGet(kv, "filter_type") = "memcg"
                THEN KvGet(kv, "memcg_path") ELSE "",
                KvGet(kv, "matching"))

kvpairs_to_DamosFilter_exc(kv) ==
    IF ~KvHasAll(kv, {"name", "filter_type", "matching"}) THEN "KeyError"
    ELSE IF KvGet(kv, "filter_type") = "memcg" /\ ~KvHas(kv, "memcg_path")
    THEN "KeyError"
    ELSE ""

\* ---- DamosStats, DamosTriedRegion ----
DamosStats(nr_tried, sz_tried, nr_applied, sz_applied, qt_exceeds) ==
    [nr_tried |-> nr_tried, sz_tried |-> sz_tried, nr_applied |-> nr_applied,
     sz_applied |-> sz_applied, qt_exceeds |-> qt_exceeds]

DamosStats_to_str(self, raw) ==
    << <<"tried ">> \o Decimal(self.nr_tried) \o <<" times (">>
           \o format_sz(self.sz_tried, raw) \o <<")">>,
       <<"applied ">> \o Decimal(self.nr_applied) \o <<" times (">>
           \o format_sz(self.sz_applied, raw) \o <<")">>,
       <<"quota exceeded ">> \o Decimal(self.qt_exceeds) \o <<" times">> >>

DamosTriedRegion(start, end, nr_accesses, age) ==
    [start |-> start, end |-> end, nr_accesses |-> nr_accesses, age |-> age]

\* DamosTriedRegion.to_str(raw), intervals left at None
DamosTriedRegion_to_str(self, raw) ==
    format_addr_range(self.start, self.end, raw) \o <<": nr_accesses: ">>
    \o format_nr(self.nr_accesses, raw) \o <<", age: ">>
    \o format_nr(self.age, raw)

\* ---- Damos ----
\* A field that may be None: <<>> is None, <<v>> is v
Some(v) == <<v>>

Damos_to_str(self, raw) ==
    << <<self.name, " (action: ", self.action, ")">>,
       <<"target access pattern">> >>
    \o indent_lines(DamosAccessPattern_to_str(self.access_pattern, raw), 4)
    \o << <<"quotas">> >>
    \o indent_lines(DamosQuotas_to_str(self.quotas, raw), 4)
    \o << <<"watermarks">> >>
    \o indent_lines(DamosWatermarks_to_str(self.watermarks, raw), 4)
    \o << <<"filters">> >>
    \o indent_lines([i \in 1..Len(self.filters) |->
                        DamosFilterToStr(self.filters[i])], 8)
    \o (IF self.stats # NoneValue
        THEN << <<"statistics">> >>
             \o indent_lines(DamosStats_to_str(self.stats[1], raw), 4)
        ELSE <<>>)
    \o (IF self.tried_regions # NoneValue
        THEN << <<"tried regions">> >>
             \o indent_lines([i \in 1..Len(self.tried_regions[1]) |->
                    DamosTriedRegion_to_str(self.tried_regions[1][i], raw)], 4)
        ELSE <<>>)

Damos_to_kvpairs(self, raw) ==
    << <<"name", self.name>>, <<"action", self.action>>,
       <<"access_pattern",
         DamosAccessPattern_to_kvpairs(self.access_pattern, raw)>>,
       <<"quotas", DamosQuotas_to_kvpairs(self.quotas, raw)>>,
       <<"watermarks", DamosWatermarks_to_kvpairs(self.watermarks, raw)>>,
       <<"filters", [i \in 1..Len(self.filters) |->
                        DamosFilter_to_kvpairs(self.filters[i], raw)]>> >>

\* kv['filters'], or nothing without the key
FilterKvpairs(kv) == IF KvHas(kv, "filters") THEN KvGet(kv, "filters") ELSE <<>>

kvpairs_to_Damos(kv) ==
    Damos(KvGet(kv, "name"),
          IF KvHas(kv, "access_pattern")
          THEN kvpairs_to_DamosAccessPattern(KvGet(kv, "access_pattern"))
          ELSE DefaultAccessPattern,
          IF KvHas(kv, "action") THEN KvGet(kv, "action")
          ELSE damos_action_stat,
          IF KvHas(kv, "quotas") THEN kvpairs_to_DamosQuotas(KvGet(kv, "quotas"))
          ELSE DefaultQuotas,
          IF KvHas(kv, "watermarks")
          THEN kvpairs_to_DamosWatermarks(KvGet(kv, "watermarks"))
          ELSE DefaultWatermarks,
          [i \in 1..Len(FilterKvpairs(kv)) |->
              kvpairs_to_DamosFilter(FilterKvpairs(kv)[i])],
          NoneValue, NoneValue)

kvpairs_to_Damos_exc(kv) ==
    FirstRaised(<<
        FirstRaised([i \in 1..Len(FilterKvpairs(kv)) |->
                        kvpairs_to_DamosFilter_exc(FilterKvpairs(kv)[i])]),
        KeyError(kv, {"name"}),
        IF KvHas(kv, "access_pattern")
        THEN kvpairs_to_DamosAccessPattern_exc(KvGet(kv, "access_pattern"))
        ELSE "",
        IF KvHas(kv, "quotas")
        THEN kvpairs_to_DamosQuotas_exc(KvGet(kv, "quotas")) ELSE "",
        IF KvHas(kv, "watermarks")
        THEN kvpairs_to_DamosWatermarks_exc(KvGet(kv, "watermarks")) ELSE "">>)

\* ---- DamonRecord ----
\* rfile_buf is a number already, which text_to_bytes gives back as it is
DamonRecord(rfile_buf, rfile_path) ==
    [rfile_buf |-> rfile_buf, rfile_path |-> rfile_path]

DamonRecord_to_kvpairs(self, raw) ==
    << <<"rfile_buf", self.rfile_buf>>, <<"rfile_path", self.rfile_path>> >>

kvpairs_to_DamonRecord(kv) ==
    DamonRecord(KvGet(kv, "rfile_buf"), KvGet(kv, "rfile_path"))

kvpairs_to_DamonRecord_exc(kv) == KeyError(kv, {"rfile_buf", "rfile_path"})

\* ---- DamonCtx ----
DamonCtx(name, intervals_, nr_regions, ops, targets, schemes, record_request) ==
    [name |-> name, intervals |-> intervals_, nr_regions |-> nr_regions,
     ops |-> ops, targets |-> targets, schemes |-> schemes,
     record_request |-> record_request]

DamonCtx_to_str(self, raw) ==
    << <<self.name, " (ops: ", self.ops, ")">>,
       <<"intervals: ">> \o DamonIntervals_to_str(self.intervals, raw),
       <<"nr_regions: ">> \o DamonNrRegionsRange_to_str(self.nr_regions, raw),
       <<"targets">> >>
    \o Lines([i \in 1..Len(self.targets) |->
                indent_lines(DamonTarget_to_str(self.targets[i], raw), 4)])
    \o << <<"schemes">> >>
    \o Lines([i \in 1..Len(self.schemes) |->
                indent_lines(Damos_to_str(self.schemes[i], raw), 4)])

DamonCtx_eq(self, other) ==
    DamonCtx_to_str(self, FALSE) = DamonCtx_to_str(other, FALSE)

DamonCtx_to_kvpairs(self, raw) ==
    << <<"name", self.name>>,
       <<"intervals", DamonIntervals_to_kvpairs(self.intervals, raw)>>,
       <<"nr_regions", DamonNrRegionsRange_to_kvpairs(self.nr_regions, raw)>>,
       <<"ops", self.ops>>,
       <<"targets", [i \in 1..Len(self.targets) |->
                        DamonTarget_to_kvpairs(self.targets[i], raw)]>>,
       <<"schemes", [i \in 1..Len(self.schemes) |->
                        Damos_to_kvpairs(self.schemes[i], raw)]>> >>
    \o (IF self.record_request # NoneValue
        THEN << <<"record_request",
                  DamonRecord_to_kvpairs(self.record_request[1], raw)>> >>
        ELSE <<>>)

\* kv['schemes'], or nothing without the key
SchemeKvpairs(kv) == IF KvHas(kv, "schemes") THEN KvGet(kv, "schemes") ELSE <<>>

kvpairs_to_DamonCtx(kv) ==
    DamonCtx(KvGet(kv, "name"),
             IF KvHas(kv, "intervals")
             THEN kvpairs_to_DamonIntervals(KvGet(kv, "intervals"))
             ELSE DamonIntervals(5000, 100000, 1000000),
             kvpairs_to_DamonNrRegionsRange(KvGet(kv, "nr_regions")),
             KvGet(kv, "ops"),
             [i \in 1..Len(KvGet(kv, "targets")) |->
                 kvpairs_to_DamonTarget(KvGet(kv, "targets")[i])],
             [i \in 1..Len(SchemeKvpairs(kv)) |->
                 kvpairs_to_Damos(SchemeKvpairs(kv)[i])],
             IF KvHas(kv, "record_request")
             THEN Some(kvpairs_to_DamonRecord(KvGet(kv, "record_request")))
             ELSE NoneValue)

\* Without the key nr_regions the code names a class that does not exist
kvpairs_to_DamonCtx_exc(kv) ==
    IF ~KvHasAll(kv, {"name", "ops", "targets"}) THEN "KeyError"
    ELSE FirstRaised(<<
            IF KvHas(kv, "intervals")
            THEN kvpairs_to_DamonIntervals_exc(KvGet(kv, "intervals")) ELSE "",
            IF KvHas(kv, "nr_regions")
            THEN kvpairs_to_DamonNrRegionsRange_exc(KvGet(kv, "nr_regions"))
            ELSE "NameError",
            FirstRaised([i \in 1..Len(KvGet(kv, "targets")) |->
                            kvpairs_to_DamonTarget_exc(KvGet(kv, "targets")[i])]),
            FirstRaised([i \in 1..Len(SchemeKvpairs(kv)) |->
                            kvpairs_to_Damos_exc(SchemeKvpairs(kv)[i])]),
            IF KvHas(kv, "record_request")
            THEN kvpairs_to_DamonRecord_exc(KvGet(kv, "record_request"))
            ELSE "">>)

\* ---- Kdamond ----
Kdamond(name, state, pid, contexts) ==
    [name |-> name, state |-> state, pid |-> pid, contexts |-> contexts]

Kdamond_summary_str(self) ==
    <<self.name, " (state: ", self.state, ", pid: ">> \o StrOfPid(self.pid)
    \o <<")">>

Kdamond_to_str(self, raw) ==
    <<Kdamond_summary_str(self)>>
    \o Lines([i \in 1..Len(self.contexts) |->
                << <<"contexts">> >>
                \o indent_lines(DamonCtx_to_str(self.contexts[i], raw), 4)])

Kdamond_eq(self, other) ==
    Kdamond_to_str(self, FALSE) = Kdamond_to_str(other, FALSE)

Kdamond_to_kvpairs(self, raw) ==
    << <<"name", self.name>>, <<"state", self.state>>, <<"pid", self.pid>>,
       <<"contexts", [i \in 1..Len(self.contexts) |->
                         DamonCtx_to_kvpairs(self.contexts[i], raw)]>> >>

kvpairs_to_Kdamond(kv) ==
    Kdamond(KvGet(kv, "name"),
            IF KvHas(kv, "state") THEN KvGet(kv, "state") ELSE "off",
            IF KvHas(kv, "pid") THEN KvGet(kv, "pid") ELSE NonePid,
            [i \in 1..Len(KvGet(kv, "contexts")) |->
                kvpairs_to_DamonCtx(KvGet(kv, "contexts")[i])])

kvpairs_to_Kdamond_exc(kv) ==
    IF ~KvHasAll(kv, {"name", "contexts"}) THEN "KeyError"
    ELSE FirstRaised([i \in 1..Len(KvGet(kv, "contexts")) |->
                        kvpairs_to_DamonCtx_exc(KvGet(kv, "contexts")[i])])

(***************************************************************************)
(* The round trip of one object of the configuration tree: to_kvpairs,     *)
(* the inverse constructor on what it gave, and == of the object built     *)
(* with the original.                                                      *)
(***************************************************************************)
\* The longest list of regions, filters, schemes, targets and contexts
MaxCfgList == 2

ListLens == 0..MaxCfgList

LeafKinds ==
    {"DamonIntervals", "DamonNrRegionsRange", "DamonRegion", "DamonTarget",
     "DamosAccessPattern", "DamosQuotas", "DamosWatermarks", "DamosFilter",
     "Damos"}

TopKinds == {"DamonCtx", "Kdamond"}

CfgKinds == LeafKinds \cup TopKinds

CfgTimes == {0, 5000, ulong_max}
CfgCounts == {0, 10, 1000}
CfgAddresses == {0, 4096, ulong_max}
CfgPids == {NonePid, 1234}

CfgIntervals ==
    {DamonIntervals(s, a, o) : s \in CfgTimes, a \in CfgTimes, o \in CfgTimes}

CfgNrRegions ==
    {DamonNrRegionsRange(lo, hi) : lo \in CfgCounts, hi \in CfgCounts}

CfgRegions == {DamonRegion(s, e) : s \in CfgAddresses, e \in CfgAddresses}

RegionList(n) == [i \in 1..n |-> DamonRegion(4096 * i, 4096 * i + 100)]

CfgTargets ==
    {DamonTarget("foo", pid, RegionList(n)) : pid \in CfgPids, n \in ListLens}

TargetList(n) ==
    [i \in 1..n |-> DamonTarget("foo", IF i = 1 THEN 1234 ELSE NonePid,
                                RegionList(i - 1))]

CfgPatterns ==
    {DamosAccessPattern(sz, n, nu, a, au) :
        sz \in {<<0, ulong_max>>, <<4096, 10000>>},
        n \in {<<0, 100>>, <<5, 8>>}, nu \in NrAccessesUnits,
        a \in {<<0, ulong_max>>, <<54, 1088>>}, au \in AgeUnits}

CfgQuotas ==
    {DamosQuotas(t, sz, r, w[1], w[2], w[3]) :
        t \in {0, 100}, sz \in {0, 1024}, r \in {1000, ulong_max},
        w \in {<<0, 0, 0>>, <<80, 76, 24>>}}

CfgWatermarks ==
    {DamosWatermarks(m, i, w[1], w[2], w[3]) :
        m \in {damos_wmarks_metric_none, damos_wmarks_metric_free_mem_rate},
        i \in {0, 5000}, w \in {<<0, 0, 0>>, <<800, 500, 200>>}}

CfgFilters ==
    {DamosFilter("f", ty, path, m) :
        ty \in {"anon", "memcg"}, path \in {"", "/a"}, m \in BOOLEAN}

\* The first filter is of type anon and has a memcg path all the same
FilterList(n) ==
    [i \in 1..n |-> DamosFilter("f", IF i % 2 = 1 THEN "anon" ELSE "memcg",
                                "/a", i % 2 = 0)]

CfgStats == {NoneValue, Some(DamosStats(3, 4096, 1, 1024, 0))}

TriedList(n) ==
    [i \in 1..n |-> DamosTriedRegion(4096 * i, 4096 * i + 100, i, 7)]

CfgTriedRegions == {NoneValue} \cup {Some(TriedList(n)) : n \in ListLens}

SchemePatterns ==
    {DefaultAccessPattern,
     DamosAccessPattern(<<4096, 10000>>, <<5, 8>>, unit_sample_intervals,
                        <<54, 1088>>, unit_aggr_intervals)}

SchemeQuotas == {DefaultQuotas, DamosQuotas(100, 1024, 1000, 80, 76, 24)}

SchemeWatermarks ==
    {DefaultWatermarks,
     DamosWatermarks(damos_wmarks_metric_free_mem_rate, 5000, 800, 500, 200)}

CfgSchemes ==
    {Damos(name, p, act, q, w, FilterList(n), st, tr) :
        name \in {"0", "foo"}, p \in SchemePatterns,
        act \in {damos_action_stat, damos_action_pageout},
        q \in SchemeQuotas, w \in SchemeWatermarks, n \in ListLens,
        st \in CfgStats, tr \in CfgTriedRegions}

\* Schemes that carry the given statistics and tried regions
SchemeList(n, st, tr) ==
    [i \in 1..n |->
        IF i % 2 = 1
        THEN Damos("0", DefaultAccessPattern, damos_action_stat, DefaultQuotas,
                   DefaultWatermarks, <<>>, st, tr)
        ELSE Damos("foo",
                   DamosAccessPattern(<<4096, 10000>>, <<5, 8>>,
                                      unit_sample_intervals, <<54, 1088>>,
                                      unit_aggr_intervals),
                   damos_action_pageout,
                   DamosQuotas(100, 1024, 1000, 80, 76, 24),
                   DamosWatermarks(damos_wmarks_metric_free_mem_rate, 5000,
                                   800, 500, 200),
                   FilterList(i), st, tr)]

CfgRecordRequests == {NoneValue, Some(DamonRecord(4096, "/damon.data"))}

CfgCtxs ==
    {DamonCtx("test_ctx", ivl, DamonNrRegionsRange(10, 1000), ops,
              TargetList(nt), SchemeList(ns, st, tr), rr) :
        ivl \in {DamonIntervals(5000, 100000, 1000000),
                 DamonIntervals(0, ulong_max, 5000)},
        ops \in {"paddr", "vaddr"}, nt \in ListLens, ns \in ListLens,
        st \in CfgStats, tr \in CfgTriedRegions, rr \in CfgRecordRequests}

CtxList(n, st, tr, rr) ==
    [i \in 1..n |->
        DamonCtx("test_ctx", DamonIntervals(5000, 100000, 1000000),
                 DamonNrRegionsRange(10, 1000),
                 IF i % 2 = 1 THEN "paddr" ELSE "vaddr",
                 TargetList(i - 1), SchemeList(i, st, tr), rr)]

CfgKdamonds ==
    {Kdamond("bar", state, pid, CtxList(n, st, tr, rr)) :
        state \in {"on", "off"}, pid \in CfgPids, n \in ListLens,
        st \in CfgStats, tr \in CfgTriedRegions, rr \in CfgRecordRequests}

CfgValues(kind) ==
    CASE kind = "DamonIntervals" -> CfgIntervals
      [] kind = "DamonNrRegionsRange" -> CfgNrRegions
      [] kind = "DamonRegion" -> CfgRegions
      [] kind = "DamonTarget" -> CfgTargets
      [] kind = "DamosAccessPattern" -> CfgPatterns
      [] kind = "DamosQuotas" -> CfgQuotas
      [] kind = "DamosWatermarks" -> CfgWatermarks
      [] kind = "DamosFilter" -> CfgFilters
      [] kind = "Damos" -> CfgSchemes
      [] kind = "DamonCtx" -> CfgCtxs
      [] kind = "Kdamond" -> CfgKdamonds

\* x.to_kvpairs(raw)
to_kvpairs(kind, x, raw) ==
    CASE kind = "DamonIntervals" -> DamonIntervals_to_kvpairs(x, raw)
      [] kind = "DamonNrRegionsRange" -> DamonNrRegionsRange_to_kvpairs(x, raw)
      [] kind = "DamonRegion" -> DamonRegion_to_kvpairs(x, raw)
      [] kind = "DamonTarget" -> DamonTarget_to_kvpairs(x, raw)
      [] kind = "DamosAccessPattern" -> DamosAccessPattern_to_kvpairs(x, raw)
      [] kind = "DamosQuotas" -> DamosQuotas_to_kvpairs(x, raw)
      [] kind = "DamosWatermarks" -> DamosWatermarks_to_kvpairs(x, raw)
      [] kind = "DamosFilter" -> DamosFilter_to_kvpairs(x, raw)
      [] kind = "Damos" -> Damos_to_kvpairs(x, raw)
      [] kind = "DamonCtx" -> DamonCtx_to_kvpairs(x, raw)
      [] kind = "Kdamond" -> Kdamond_to_kvpairs(x, raw)

\* The inverse constructor of a kind
from_kvpairs(kind, kv) ==
    CASE kind = "DamonIntervals" -> kvpairs_to_DamonIntervals(kv)
      [] kind = "DamonNrRegionsRange" -> kvpairs_to_DamonNrRegionsRange(kv)
      [] kind = "DamonRegion" -> kvpairs_to_DamonRegion(kv)
      [] kind = "DamonTarget" -> kvpairs_to_DamonTarget(kv)
      [] kind = "DamosAccessPattern" -> kvpairs_to_DamosAccessPattern(kv)
      [] kind = "DamosQuotas" -> kvpairs_to_DamosQuotas(kv)
      [] kind = "DamosWatermarks" -> kvpairs_to_DamosWatermarks(kv)
      [] kind = "DamosFilter" -> kvpairs_to_DamosFilter(kv)
      [] kind = "Damos" -> kvpairs_to_Damos(kv)
      [] kind = "DamonCtx" -> kvpairs_to_DamonCtx(kv)
      [] kind = "Kdamond" -> kvpairs_to_Kdamond(kv)

\* What the inverse constructor of a kind raises
from_kvpairs_exc(kind, kv) ==
    CASE kind = "DamonIntervals" -> kvpairs_to_DamonIntervals_exc(kv)
      [] kind = "DamonNrRegionsRange" -> kvpairs_to_DamonNrRegionsRange_exc(kv)
      [] kind = "DamonRegion" -> kvpairs_to_DamonRegion_exc(kv)
      [] kind = "DamonTarget" -> kvpairs_to_DamonTarget_exc(kv)
      [] kind = "DamosAccessPattern" -> kvpairs_to_DamosAccessPattern_exc(kv)
      [] kind = "DamosQuotas" -> kvpairs_to_DamosQuotas_exc(kv)
      [] kind = "DamosWatermarks" -> kvpairs_to_DamosWatermarks_exc(kv)
      [] kind = "DamosFilter" -> kvpairs_to_DamosFilter_exc(kv)
      [] kind = "Damos" -> kvpairs_to_Damos_exc(kv)
      [] kind = "DamonCtx" -> kvpairs_to_DamonCtx_exc(kv)
      [] kind = "Kdamond" -> kvpairs_to_Kdamond_exc(kv)

\* self == other
CfgEq(kind, self, other) ==
    CASE kind = "DamonIntervals" -> DamonIntervals_eq(self, other)
      [] kind = "DamonNrRegionsRange" -> DamonNrRegionsRange_eq(self, other)
      [] kind = "DamonRegion" -> DamonRegion_eq(self, other)
      [] kind = "DamonTarget" -> DamonTarget_eq(self, other)
      [] kind = "DamosAccessPattern" -> AccessPatternEq(self, other)
      [] kind = "DamosQuotas" -> DamosQuotas_eq(self, other)
      [] kind = "DamosWatermarks" -> DamosWatermarks_eq(self, other)
      [] kind = "DamosFilter" -> DamosFilterEq(self, other)
      [] kind = "Damos" -> Damos_eq(self, other)
      [] kind = "DamonCtx" -> DamonCtx_eq(self, other)
      [] kind = "Kdamond" -> Kdamond_eq(self, other)

\* No object
NoObject == <<>>

\* The state of the configuration part while another part runs
CfgIdle ==
    /\ tPc = "idle"
    /\ tKind = "DamonRegion"
    /\ tObj = DamonRegion(0, 0)
    /\ tRaw = TRUE
    /\ tKv = <<>>
    /\ tBack = NoObject
    /\ tExc = ""
    /\ tEq = FALSE

CfgInit ==
    /\ tPc = "made"
    /\ tKind \in CfgKinds
    /\ tObj \in CfgValues(tKind)
    /\ tRaw \in BOOLEAN
    /\ tKv = <<>>
    /\ tBack = NoObject
    /\ tExc = ""
    /\ tEq = FALSE

\* kv = x.to_kvpairs(raw)
CfgToKvpairs ==
    /\ tPc = "made"
    /\ tKv' = to_kvpairs(tKind, tObj, tRaw)
    /\ tPc' = "kv"
    /\ UNCHANGED <<tKind, tObj, tRaw, tBack, tExc, tEq>>
    /\ UNCHANGED cfgOthers

\* The unit tags a caller gives the constructor of a pattern
CfgUnitTags == NrAccessesUnits \cup AgeUnits \cup {"foo", "bar"}

\* A constructor that looks at the nr_accesses_unit only
DamosAccessPattern_exc_nr_accesses_unit(nr_accesses_unit, age_unit) ==
    IF nr_accesses_unit \notin {unit_percent, unit_sample_intervals}
    THEN "invalid access pattern nr_accesses_unit"
    ELSE ""

\* What DamosAccessPattern.__init__ raises for the two unit tags, the
\* bounds being numbers: it leaves at the first tag outside its set
DamosAccessPattern_exc(nr_accesses_unit, age_unit) ==
    IF nr_accesses_unit \notin {unit_percent, unit_sample_intervals}
    THEN "invalid access pattern nr_accesses_unit"
    ELSE IF age_unit \notin {unit_usec, unit_aggr_intervals}
    THEN "invalid access pattern age_unit"
    ELSE ""

\* back = DamosAccessPattern(sz_bytes, nr_accesses, u1, age, u2) with the
\* bounds of the pattern at hand and any two unit tags
CfgConstructPattern ==
    /\ tPc = "made"
    /\ tKind = "DamosAccessPattern"
    /\ \E u1 \in CfgUnitTags, u2 \in CfgUnitTags :
          /\ tKv' = << <<"nr_accesses_unit", u1>>, <<"age_unit", u2>> >>
          /\ tExc' = DamosAccessPattern_exc(u1, u2)
          /\ tBack' = IF tExc' = ""
                       THEN DamosAccessPattern(
                               <<tObj.min_sz_bytes, tObj.max_sz_bytes>>,
                               <<tObj.min_nr_accesses, tObj.max_nr_accesses>>,
                               u1, <<tObj.min_age, tObj.max_age>>, u2)
                       ELSE NoObject
    /\ tPc' = "constructed"
    /\ UNCHANGED <<tKind, tObj, tRaw, tEq>>
    /\ UNCHANGED cfgOthers

\* The keys of a mapping
Keys(kv) == {kv[i][1] : i \in 1..Len(kv)}

RECURSIVE KvWithout(_, _)
\* The mapping without some keys
KvWithout(kv, keys) ==
    IF Len(kv) = 0 THEN <<>>
    ELSE IF Head(kv)[1] \in keys THEN KvWithout(Tail(kv), keys)
    ELSE <<Head(kv)>> \o KvWithout(Tail(kv), keys)

\* The keys an inverse constructor asks for with "'key' in kv"
OptionalKeys(kind) ==
    CASE kind = "Damos" ->
            {"access_pattern", "action", "quotas", "watermarks", "filters"}
      [] kind = "DamonCtx" ->
            {"intervals", "nr_regions", "schemes", "record_request"}
      [] kind = "Kdamond" -> {"state", "pid"}
      [] OTHER -> {}

\* The keys a caller leaves out of a mapping: any one key, every optional
\* key, or every optional key but nr_regions
OmitChoices(kind, kv) ==
    {{k} : k \in Keys(kv)}
    \cup ({OptionalKeys(kind), OptionalKeys(kind) \ {"nr_regions"}} \ {{}})

\* The caller hands over a raw mapping that lacks keys
CfgOmitKeys ==
    /\ tPc = "kv"
    /\ tRaw
    /\ \E keys \in OmitChoices(tKind, tKv) : tKv' = KvWithout(tKv, keys)
    /\ tPc' = "cut"
    /\ UNCHANGED <<tKind, tObj, tRaw, tBack, tExc, tEq>>
    /\ UNCHANGED cfgOthers

\* back = kvpairs_to_<kind>(kv), for the mapping of to_kvpairs ("back") or
\* for one that lacks keys ("partial")
CfgFromKvpairs ==
    /\ tPc \in {"kv", "cut"}
    /\ tExc' = from_kvpairs_exc(tKind, tKv)
    /\ tBack' = IF tExc' = "" THEN from_kvpairs(tKind, tKv) ELSE NoObject
    /\ tPc' = IF tPc = "kv" THEN "back" ELSE "partial"
    /\ UNCHANGED <<tKind, tObj, tRaw, tKv, tEq>>
    /\ UNCHANGED cfgOthers

\* back == x
CfgCompare ==
    /\ tPc = "back"
    /\ tExc = ""
    /\ tEq' = CfgEq(tKind, tBack, tObj)
    /\ tPc' = "compared"
    /\ UNCHANGED <<tKind, tObj, tRaw, tKv, tBack, tExc>>
    /\ UNCHANGED cfgOthers

\* The kinds whose == goes through str()
StrEqKinds == {"DamosFilter", "DamonTarget", "DamonCtx", "Kdamond"}

\* The statistics of every scheme of a list set or cleared
WithStatsFlipped(schemes) ==
    [i \in 1..Len(schemes) |->
        [schemes[i] EXCEPT
            !.stats = IF @ = NoneValue THEN Some(DamosStats(3, 4096, 1, 1024, 0))
                      ELSE NoneValue]]

\* A context that differs from x in one field
CtxVariants(x) ==
    {[x EXCEPT !.name = "other_ctx"],
     [x EXCEPT !.intervals = DamonIntervals(1, 2, 3)],
     [x EXCEPT !.nr_regions = DamonNrRegionsRange(20, 1000)],
     [x EXCEPT !.ops = IF @ = "paddr" THEN "fvaddr" ELSE "paddr"],
     [x EXCEPT !.targets = Append(@, DamonTarget("baz", NonePid, <<>>))],
     [x EXCEPT !.schemes = Append(@, DefaultDamos)],
     [x EXCEPT !.schemes = WithStatsFlipped(@)],
     [x EXCEPT !.record_request =
         IF @ = NoneValue THEN Some(DamonRecord(4096, "/damon.data"))
         ELSE NoneValue]}

\* The objects an object x of a kind is compared with: itself and objects
\* that differ from it in one field
CfgOthers(kind, x) ==
    {x} \cup
    CASE kind = "DamosFilter" ->
            {[x EXCEPT !.name = "g"],
             [x EXCEPT !.filter_type = IF @ = "anon" THEN "memcg" ELSE "anon"],
             [x EXCEPT !.memcg_path = IF @ = "/a" THEN "/b" ELSE "/a"],
             [x EXCEPT !.matching = ~@]}
      [] kind = "DamonTarget" ->
            {[x EXCEPT !.name = "bar"],
             [x EXCEPT !.pid = IF @ = NonePid THEN 1234 ELSE NonePid],
             [x EXCEPT !.regions = Append(@, DamonRegion(0, 100))]}
      [] kind = "DamonCtx" -> CtxVariants(x)
      [] kind = "Kdamond" ->
            {[x EXCEPT !.name = "baz"],
             [x EXCEPT !.state = IF @ = "on" THEN "off" ELSE "on"],
             [x EXCEPT !.pid = IF @ = NonePid THEN 1234 ELSE NonePid]}
            \cup (IF x.contexts = <<>> THEN {}
                  ELSE {[x EXCEPT !.contexts[1] = c] :
                            c \in CtxVariants(x.contexts[1])})
      [] OTHER -> {}

\* eq = (x == other)
CfgCompareWith ==
    /\ tPc = "made"
    /\ tKind \in StrEqKinds
    /\ \E other \in CfgOthers(tKind, tObj) :
          /\ tBack' = other
          /\ tEq' = CfgEq(tKind, tObj, other)
    /\ tPc' = "equal"
    /\ UNCHANGED <<tKind, tObj, tRaw, tKv, tExc>>
    /\ UNCHANGED cfgOthers

CfgNext ==
    \/ CfgToKvpairs
    \/ CfgOmitKeys
    \/ CfgFromKvpairs
    \/ CfgCompare
    \/ CfgConstructPattern
    \/ CfgCompareWith

(***************************************************************************)
(* C1: for every Interval Set, Nr-Regions Range, Address Region, Target,   *)
(* Access Pattern (in each of the four combinations of units), Quotas,     *)
(* Watermarks, Filter and Scheme x, the inverse constructor applied to     *)
(* x.to_kvpairs(raw=True) returns a value, and the value is == x.          *)
(***************************************************************************)
C1_RawRoundTripOfLeafAndSchemeTypes ==
    (tRaw /\ tKind \in LeafKinds) =>
        /\ tPc = "back" => tExc = ""
        /\ tPc = "compared" => tEq

\* A scheme with a pattern in sample_intervals and aggr_intervals, a filter
\* and statistics has made the round trip
C1_Witness ==
    /\ tPc = "compared"
    /\ tRaw
    /\ tKind = "Damos"
    /\ tObj.access_pattern.nr_accesses_unit = unit_sample_intervals
    /\ tObj.access_pattern.age_unit = unit_aggr_intervals
    /\ tObj.filters # <<>>
    /\ tObj.stats # NoneValue
    /\ tBack.access_pattern.nr_accesses_unit = unit_sample_intervals
    /\ tEq

(***************************************************************************)
(* C2: for every Context and every Kdamond x, with or without a            *)
(* record_request, with or without statistics and tried regions in its     *)
(* schemes, the inverse constructor applied to x.to_kvpairs(raw=True)      *)
(* returns a value, and the value is == x.                                 *)
(***************************************************************************)
C2_RawRoundTripOfContextAndKdamond ==
    (tRaw /\ tKind \in TopKinds) =>
        /\ tPc = "back" => tExc = ""
        /\ tPc = "compared" => tEq

\* Contexts and kdamonds whose schemes carry neither statistics nor tried
\* regions do make the round trip
NoStatistics(schemes) ==
    \A i \in 1..Len(schemes) :
        schemes[i].stats = NoneValue /\ schemes[i].tried_regions = NoneValue

RawRoundTripWithoutStatistics ==
    LET plain == IF tKind = "DamonCtx" THEN NoStatistics(tObj.schemes)
                 ELSE \A c \in 1..Len(tObj.contexts) :
                         NoStatistics(tObj.contexts[c].schemes)
    IN  (tRaw /\ tKind \in TopKinds /\ plain) =>
            /\ tPc = "back" => tExc = ""
            /\ tPc = "compared" => tEq

(***************************************************************************)
(* Mappings that lack keys                                                 *)
(***************************************************************************)
\* The keys C13 names as required for the mapping of an object
RequiredKeys(kind, obj) ==
    CASE kind = "DamonCtx" -> {"name", "ops", "targets"}
      [] kind = "Kdamond" -> {"name", "contexts"}
      [] kind = "Damos" -> {"name"}
      [] kind = "DamonTarget" -> {"name", "pid", "regions"}
      [] kind = "DamonIntervals" -> {"sample_us", "aggr_us", "ops_update_us"}
      [] kind = "DamonNrRegionsRange" -> {"min", "max"}
      [] kind = "DamonRegion" -> {"start", "end"}
      [] kind = "DamosAccessPattern" ->
            {"min_sz_bytes", "max_sz_bytes", "min_nr_accesses",
             "max_nr_accesses", "min_age", "max_age"}
      [] kind = "DamosQuotas" ->
            {"time_ms", "sz_bytes", "reset_interval_ms", "weight_sz_permil",
             "weight_nr_accesses_permil", "weight_age_permil"}
      [] kind = "DamosWatermarks" ->
            {"metric", "interval_us", "high_permil", "mid_permil",
             "low_permil"}
      [] kind = "DamosFilter" ->
            IF obj.filter_type = "memcg" THEN {"memcg_path"} ELSE {}

\* The required keys the mapping lacks
MissingKeys == RequiredKeys(tKind, tObj) \ Keys(tKv)

\* C13: an inverse constructor given a mapping that lacks a required key
\* fails and returns no object.
C13_MissingRequiredKeyFails ==
    tPc = "partial" /\ MissingKeys # {} =>
        /\ tExc # ""
        /\ tBack = NoObject

\* A context mapping without 'targets' has been refused
C13_Witness ==
    /\ tPc = "partial"
    /\ tKind = "DamonCtx"
    /\ MissingKeys = {"targets"}
    /\ tExc = "KeyError"

\* The defaults C14 names for the optional keys that a mapping lacks
DefaultsTaken ==
    CASE tKind = "Kdamond" ->
            /\ "state" \notin Keys(tKv) => tBack.state = "off"
            /\ "pid" \notin Keys(tKv) => tBack.pid = NonePid
      [] tKind = "DamonCtx" ->
            /\ "intervals" \notin Keys(tKv)
                  => tBack.intervals = DamonIntervals(5000, 100000, 1000000)
            /\ "nr_regions" \notin Keys(tKv)
                  => tBack.nr_regions = DamonNrRegionsRange(10, 1000)
            /\ "schemes" \notin Keys(tKv) => tBack.schemes = <<>>
            /\ "record_request" \notin Keys(tKv)
                  => tBack.record_request = NoneValue
      [] tKind = "Damos" ->
            /\ "access_pattern" \notin Keys(tKv)
                  => tBack.access_pattern = DefaultAccessPattern
            /\ "action" \notin Keys(tKv) => tBack.action = damos_action_stat
            /\ "quotas" \notin Keys(tKv) => tBack.quotas = DefaultQuotas
            /\ "watermarks" \notin Keys(tKv)
                  => tBack.watermarks = DefaultWatermarks
            /\ "filters" \notin Keys(tKv) => tBack.filters = <<>>

\* C14: an inverse constructor given a mapping that has every required key
\* and lacks optional keys succeeds, and each absent optional key has its
\* default in the object built.
C14_AbsentOptionalKeysTakeDefaults ==
    /\ tPc = "partial"
    /\ tKind \in {"Kdamond", "DamonCtx", "Damos"}
    /\ MissingKeys = {}
    => /\ tExc = ""
       /\ DefaultsTaken

\* What the code keeps of C14: the defaults of every optional key but a
\* context's nr_regions.
AbsentOptionalKeysButNrRegionsTakeDefaults ==
    /\ tPc = "partial"
    /\ tKind \in {"Kdamond", "DamonCtx", "Damos"}
    /\ MissingKeys = {}
    /\ tKind = "DamonCtx" => "nr_regions" \in Keys(tKv)
    => /\ tExc = ""
       /\ DefaultsTaken

\* A scheme and a context have been built from mappings that lack optional
\* keys
OptionalKeysOmitted ==
    /\ tPc = "partial"
    /\ tExc = ""
    /\ \/ tKind = "Damos" /\ Keys(tKv) = {"name"} /\ tObj.filters # <<>>
       \/ tKind = "DamonCtx" /\ "schemes" \notin Keys(tKv)

(***************************************************************************)
(* The unit tags of a new pattern                                          *)
(***************************************************************************)
\* C15: the constructor of an Access Pattern given an nr_accesses_unit
\* outside {percent, sample_intervals} or an age_unit outside {usec,
\* aggr_intervals} fails and yields no object; given both tags inside their
\* sets it builds a pattern whose tags are the given ones.
C15_InvalidUnitTagFails ==
    tPc = "constructed" =>
        LET u1 == KvGet(tKv, "nr_accesses_unit")
            u2 == KvGet(tKv, "age_unit")
        IN  IF /\ u1 \in {"percent", "sample_intervals"}
               /\ u2 \in {"usec", "aggr_intervals"}
            THEN /\ tExc = ""
                 /\ tBack.nr_accesses_unit = u1
                 /\ tBack.age_unit = u2
            ELSE /\ tExc # ""
                 /\ tBack = NoObject

\* The constructor has refused the age_unit 'bar' after it took the
\* nr_accesses_unit 'sample_intervals'
C15_Witness ==
    /\ tPc = "constructed"
    /\ KvGet(tKv, "nr_accesses_unit") = unit_sample_intervals
    /\ KvGet(tKv, "age_unit") = "bar"
    /\ tExc = "invalid access pattern age_unit"

\* Two lists of schemes are equal by Damos.__eq__
SchemesEq(ss, ts) ==
    /\ Len(ss) = Len(ts)
    /\ \A i \in 1..Len(ss) : Damos_eq(ss[i], ts[i])

\* Every field of the canonical key order of a context is equal, the
\* schemes by Damos.__eq__
CtxFieldsEqual(a, b) ==
    /\ a.name = b.name
    /\ a.intervals = b.intervals
    /\ a.nr_regions = b.nr_regions
    /\ a.ops = b.ops
    /\ a.targets = b.targets
    /\ SchemesEq(a.schemes, b.schemes)
    /\ a.record_request = b.record_request

\* Every field of the canonical key order of the kind is equal
CanonicalFieldsEqual(kind, a, b) ==
    CASE kind = "DamosFilter" ->
            /\ a.name = b.name
            /\ a.filter_type = b.filter_type
            /\ a.memcg_path = b.memcg_path
            /\ a.matching = b.matching
      [] kind = "DamonTarget" ->
            /\ a.name = b.name
            /\ a.pid = b.pid
            /\ a.regions = b.regions
      [] kind = "DamonCtx" -> CtxFieldsEqual(a, b)
      [] kind = "Kdamond" ->
            /\ a.name = b.name
            /\ a.state = b.state
            /\ a.pid = b.pid
            /\ Len(a.contexts) = Len(b.contexts)
            /\ \A i \in 1..Len(a.contexts) :
                  CtxFieldsEqual(a.contexts[i], b.contexts[i])

\* C21: two Filters, Targets, Contexts or Kdamonds are == if and only if
\* every field of the canonical key order of their type is equal, the
\* schemes of a Context being compared as Scheme == compares them.
C21_EqualityIsStructuralOverCanonicalFields ==
    tPc = "equal" => (tEq <=> CanonicalFieldsEqual(tKind, tObj, tBack))

\* What the code does keep: objects whose canonical fields are equal and
\* whose schemes carry the same statistics and tried regions are ==, and
\* Targets are == exactly when their fields are equal
EqualityOfEqualFields ==
    tPc = "equal" =>
        /\ tObj = tBack => tEq
        /\ tKind = "DamonTarget" => (tEq <=> CanonicalFieldsEqual(tKind, tObj, tBack))

\* A Filter has been compared with one that differs from it in the name
FiltersOfTwoNamesCompared ==
    /\ tPc = "equal"
    /\ tKind = "DamosFilter"
    /\ tBack.name # tObj.name

\* C22: aggregate_snapshots changes no field of an input snapshot or of an
\* input region, so that aggregating the same snapshots again returns the
\* same regions and counts.
C22_AggregationLeavesInputsUnchanged ==
    aPc = "done" => ~aMutated

\* What the code does keep: the regions of a single snapshot of pairwise
\* disjoint regions are returned as they are and are not changed
AggregationOfOneDisjointSnapshotLeavesItUnchanged ==
    aPc = "done" /\ aNrSnaps = 1 /\ aDisjoint => ~aMutated /\ aRet.regions = aCur

\* Two snapshots have been aggregated and a region of the first has had
\* its count raised by the second
InputRegionCountRaised ==
    /\ aPc = "done"
    /\ aNrSnaps = 2
    /\ aMutated
    /\ aRet.regions # <<>>
    /\ aRet.regions[1].input
    /\ aRet.regions[1].nr_accesses # aBorn[1].nr

\* list(kv.keys())
KeyOrder(kv) == [i \in 1..Len(kv) |-> kv[i][1]]

\* The canonical key order of a Context whose mapping is kv
CtxKeyOrder(kv) ==
    <<"name", "intervals", "nr_regions", "ops", "targets", "schemes">>
    \o (IF KvHas(kv, "record_request") THEN <<"record_request">> ELSE <<>>)

\* The mapping of a Context has the canonical key order, and so have the
\* mappings of its targets and schemes
CtxKeysInOrder(kv) ==
    /\ KeyOrder(kv) = CtxKeyOrder(kv)
    /\ \A i \in 1..Len(KvGet(kv, "targets")) :
          KeyOrder(KvGet(kv, "targets")[i]) = <<"name", "pid", "regions">>
    /\ \A i \in 1..Len(KvGet(kv, "schemes")) :
          KeyOrder(KvGet(kv, "schemes")[i])
              = <<"name", "action", "access_pattern", "quotas", "watermarks",
                  "filters">>

\* C23: to_kvpairs, raw or not, returns the keys in the canonical order:
\* Target (name, pid, regions); Scheme (name, action, access_pattern,
\* quotas, watermarks, filters); Context (name, intervals, nr_regions, ops,
\* targets, schemes, and then record_request exactly when one is set);
\* Kdamond (name, state, pid, contexts).
C23_KvpairsInCanonicalKeyOrder ==
    tPc = "kv" =>
        /\ tKind = "DamonTarget" => KeyOrder(tKv) = <<"name", "pid", "regions">>
        /\ tKind = "Damos" =>
              KeyOrder(tKv) = <<"name", "action", "access_pattern", "quotas",
                                "watermarks", "filters">>
        /\ tKind = "DamonCtx" =>
              /\ CtxKeysInOrder(tKv)
              /\ KvHas(tKv, "record_request") <=> tObj.record_request # NoneValue
        /\ tKind = "Kdamond" =>
              /\ KeyOrder(tKv) = <<"name", "state", "pid", "contexts">>
              /\ \A i \in 1..Len(KvGet(tKv, "contexts")) :
                    CtxKeysInOrder(KvGet(tKv, "contexts")[i])

\* The mapping of a Context with a record request, two targets and two
\* schemes has been made in human mode
C23_Witness ==
    /\ tPc = "kv"
    /\ tKind = "DamonCtx"
    /\ ~tRaw
    /\ tObj.record_request # NoneValue
    /\ Len(tObj.targets) = 2
    /\ Len(tObj.schemes) = 2
    /\ Len(tKv) = 7

(***************************************************************************)
(* Damos.__init__ with objects that have an identity.  hObjs is the heap:  *)
(* the objects made so far, each [kind, val]; a reference is an index into *)
(* it, NoRef is None.                                                      *)
(***************************************************************************)
NoRef == 0

\* The object a default is taken from is made once and then shared
FreshOrGivenOnce(given, heap, kind, val) ==
    IF given # NoRef THEN [heap |-> heap, ref |-> given]
    ELSE IF \E r \in 1..Len(heap) : heap[r].kind = kind
    THEN [heap |-> heap,
          ref |-> CHOOSE r \in 1..Len(heap) :
                     /\ heap[r].kind = kind
                     /\ \A q \in 1..r - 1 : heap[q].kind # kind]
    ELSE [heap |-> Append(heap, [kind |-> kind, val |-> val]),
          ref |-> Len(heap) + 1]

\* x if x != None else X(): X() makes a new object at every call
FreshOrGiven(given, heap, kind, val) ==
    IF given # NoRef THEN [heap |-> heap, ref |-> given]
    ELSE [heap |-> Append(heap, [kind |-> kind, val |-> val]),
          ref |-> Len(heap) + 1]

\* Damos.__init__(name, access_pattern, action, quotas, watermarks, filters)
\* with references for the four objects: the heap afterwards and the scheme
Damos_init(heap, name, access_pattern, action, quotas, watermarks, filters) ==
    LET p == FreshOrGiven(access_pattern, heap, "DamosAccessPattern",
                          DefaultAccessPattern)
        q == FreshOrGiven(quotas, p.heap, "DamosQuotas", DefaultQuotas)
        w == FreshOrGiven(watermarks, q.heap, "DamosWatermarks", DefaultWatermarks)
        f == FreshOrGiven(filters, w.heap, "list", <<>>)
    IN  [heap |-> f.heap,
         scheme |-> [name |-> name, access_pattern |-> p.ref, action |-> action,
                     quotas |-> q.ref, watermarks |-> w.ref, filters |-> f.ref]]

\* The scheme with its four objects as they are in the heap
SchemeValue(heap, s) ==
    Damos(s.name, heap[s.access_pattern].val, s.action, heap[s.quotas].val,
          heap[s.watermarks].val, heap[s.filters].val, NoneValue, NoneValue)

MaxHeapSchemes == 3    \* schemes built

HeapFields == {"access_pattern", "quotas", "watermarks", "filters"}

\* A field mutation of the object of a field, as a caller makes it:
\* pattern.min_nr_accesses = 5, quotas.time_ms = 123,
\* watermarks.metric = 'free_mem_rate', filters.append(DamosFilter(...))
HeapMutated(field, val) ==
    CASE field = "access_pattern" -> [val EXCEPT !.min_nr_accesses = 5]
      [] field = "quotas" -> [val EXCEPT !.time_ms = 123]
      [] field = "watermarks" ->
            [val EXCEPT !.metric = damos_wmarks_metric_free_mem_rate]
      [] field = "filters" -> <<DamosFilter("f", "anon", "", TRUE)>>

HeapIdle ==
    /\ hObjs = <<>>
    /\ hSchemes = <<>>
    /\ hNew = DefaultDamos

HeapInit == HeapIdle

\* damos = _damon.Damos()
HeapDamos ==
    /\ Len(hSchemes) < MaxHeapSchemes
    /\ LET d == Damos_init(hObjs, "0", NoRef, damos_action_stat, NoRef, NoRef,
                           NoRef)
       IN  /\ hObjs' = d.heap
           /\ hSchemes' = Append(hSchemes, d.scheme)
           /\ hNew' = SchemeValue(d.heap, d.scheme)
    /\ UNCHANGED heapOthers

\* A field of an object of one of the schemes built is changed
HeapMutate ==
    /\ \E i \in 1..Len(hSchemes), field \in HeapFields :
          hObjs' = [hObjs EXCEPT ![hSchemes[i][field]].val = HeapMutated(field, @)]
    /\ UNCHANGED <<hSchemes, hNew>>
    /\ UNCHANGED heapOthers

HeapNext ==
    \/ HeapDamos
    \/ HeapMutate

\* C24: whatever fields of the access pattern, the quotas, the watermarks
\* or the filter list of schemes built with Damos() have been changed,
\* every later Damos() has the default access pattern, the default quotas,
\* the default watermarks and an empty filter list.
C24_DefaultSchemesShareNoState ==
    /\ hNew.access_pattern = DefaultAccessPattern
    /\ hNew.quotas = DefaultQuotas
    /\ hNew.watermarks = DefaultWatermarks
    /\ hNew.filters = <<>>

\* All four objects of the first scheme have been changed and a scheme has
\* been built afterwards
C24_Witness ==
    /\ Len(hSchemes) >= 2
    /\ SchemeValue(hObjs, hSchemes[1]).access_pattern # DefaultAccessPattern
    /\ SchemeValue(hObjs, hSchemes[1]).quotas # DefaultQuotas
    /\ SchemeValue(hObjs, hSchemes[1]).watermarks # DefaultWatermarks
    /\ SchemeValue(hObjs, hSchemes[1]).filters # <<>>
    /\ hNew = SchemeValue(hObjs, hSchemes[Len(hSchemes)])

(***************************************************************************)
(* damo schemes (damo_schemes.py): main turns DAMON on, waits until the    *)
(* kdamonds are off and calls cleanup_exit; a signal runs sighandler, and  *)
(* with it cleanup_exit, in the main thread at the point the program has   *)
(* reached.  cleanup_exit ends in exit(), so the code a signal interrupts  *)
(* is never resumed.                                                       *)
(***************************************************************************)
KdamondNames == <<"0", "1">>   \* the kdamonds that this run turns on, in order
Kdamonds == {KdamondNames[i] : i \in 1 .. Len(KdamondNames)}

MaxSignals == 2              \* signals delivered to one run

\* kdamonds_names = None
NoNames == {"None"}

CleanupPcs == {"cleanup", "turn_off", "wait_off", "apply", "exit"}

\* The state of the run while another part runs
RunIdle ==
    /\ mPc = "idle"
    /\ kdamonds_names = NoNames
    /\ kdamonds_names_to_turn_off = {}
    /\ kRunning = {}
    /\ kTurnedOn = {}
    /\ nApplied = 0
    /\ kApplied = {}
    /\ sigAt = {}
    /\ nSignals = 0

\* main, lines 45-49: orig_kdamonds is read, kdamonds_names is None and the
\* handlers are installed; no kdamond runs
RunInit ==
    /\ mPc = "turn_on"
    /\ kdamonds_names = NoNames
    /\ kdamonds_names_to_turn_off = {}
    /\ kRunning = {}
    /\ kTurnedOn = {}
    /\ nApplied = 0
    /\ kApplied = {}
    /\ sigAt = {}
    /\ nSignals = 0

\* turn_damon_on, line 51: the next kdamond is turned on
RunTurnOn ==
    /\ mPc = "turn_on"
    /\ kTurnedOn # Kdamonds
    /\ LET k == KdamondNames[Cardinality(kTurnedOn) + 1]
       IN  /\ kRunning' = kRunning \cup {k}
           /\ kTurnedOn' = kTurnedOn \cup {k}
    /\ UNCHANGED <<mPc, kdamonds_names, kdamonds_names_to_turn_off, nApplied, kApplied, sigAt, nSignals>>
    /\ UNCHANGED runOthers

\* turn_damon_on returns an error, lines 52-54: cleanup_exit(-3)
RunTurnOnFails ==
    /\ mPc = "turn_on"
    /\ kTurnedOn # Kdamonds
    /\ mPc' = "cleanup"
    /\ UNCHANGED <<kdamonds_names, kdamonds_names_to_turn_off, kRunning,
                   kTurnedOn, nApplied, kApplied, sigAt, nSignals>>
    /\ UNCHANGED runOthers

\* turn_damon_on returns the kdamonds, lines 51-52
RunTurnedOn ==
    /\ mPc = "turn_on"
    /\ kTurnedOn = Kdamonds
    /\ mPc' = "names"
    /\ UNCHANGED <<kdamonds_names, kdamonds_names_to_turn_off, kRunning,
                   kTurnedOn, nApplied, kApplied, sigAt, nSignals>>
    /\ UNCHANGED runOthers

\* kdamonds_names = [k.name for k in kdamonds], line 56
RunAssignNames ==
    /\ mPc = "names"
    /\ kdamonds_names' = Kdamonds
    /\ mPc' = "wait"
    /\ UNCHANGED <<kdamonds_names_to_turn_off, kRunning, kTurnedOn, nApplied, kApplied, sigAt, nSignals>>
    /\ UNCHANGED runOthers

\* wait_current_kdamonds_turned_off() returns once no kdamond is running,
\* and main calls cleanup_exit(0), lines 62-64
RunWaitTurnedOff ==
    /\ mPc = "wait"
    /\ kRunning = {}
    /\ mPc' = "cleanup"
    /\ UNCHANGED <<kdamonds_names, kdamonds_names_to_turn_off, kRunning,
                   kTurnedOn, nApplied, kApplied, sigAt, nSignals>>
    /\ UNCHANGED runOthers

\* cleanup_exit, lines 15-19: the kdamonds of kdamonds_names that are
\* running, none when kdamonds_names is None
CleanupCollect ==
    /\ mPc = "cleanup"
    /\ kdamonds_names_to_turn_off' =
          IF kdamonds_names # NoNames THEN kdamonds_names \cap kRunning ELSE {}
    /\ mPc' = "turn_off"
    /\ UNCHANGED <<kdamonds_names, kRunning, kTurnedOn, nApplied,
                   kApplied, sigAt, nSignals>>
    /\ UNCHANGED runOthers

\* turn_damon_off(kdamonds_names_to_turn_off), line 20 (_damon.py line 927):
\* the kdamonds named are turned off
CleanupTurnOff ==
    /\ mPc = "turn_off"
    /\ kRunning' = kRunning \ kdamonds_names_to_turn_off
    /\ mPc' = "wait_off"
    /\ UNCHANGED <<kdamonds_names, kdamonds_names_to_turn_off, kTurnedOn,
                   nApplied, kApplied, sigAt, nSignals>>
    /\ UNCHANGED runOthers

\* turn_damon_off waits in wait_current_kdamonds_turned_off() until no
\* kdamond is running (_damon.py lines 897-900 and 930), and returns
CleanupWaitOff ==
    /\ mPc = "wait_off"
    /\ kRunning = {}
    /\ mPc' = "apply"
    /\ UNCHANGED <<kdamonds_names, kdamonds_names_to_turn_off, kRunning,
                   kTurnedOn, nApplied, kApplied, sigAt, nSignals>>
    /\ UNCHANGED runOthers

\* apply_kdamonds(orig_kdamonds), line 23
CleanupApply ==
    /\ mPc = "apply"
    /\ nApplied' = nApplied + 1
    /\ kApplied' = kApplied \cup kRunning
    /\ mPc' = "exit"
    /\ UNCHANGED <<kdamonds_names, kdamonds_names_to_turn_off, kRunning,
                   kTurnedOn, sigAt, nSignals>>
    /\ UNCHANGED runOthers

\* exit(exit_code), line 26
CleanupExit ==
    /\ mPc = "exit"
    /\ mPc' = "exited"
    /\ UNCHANGED <<kdamonds_names, kdamonds_names_to_turn_off, kRunning,
                   kTurnedOn, nApplied, kApplied, sigAt, nSignals>>
    /\ UNCHANGED runOthers

\* SIGINT or SIGTERM is delivered: sighandler calls cleanup_exit(signum),
\* lines 28-30, whatever the program was doing
RunSignal ==
    /\ mPc \notin {"idle", "exited"}
    /\ nSignals < MaxSignals
    /\ nSignals' = nSignals + 1
    /\ sigAt' = sigAt \cup {mPc}
    /\ mPc' = "cleanup"
    /\ UNCHANGED <<kdamonds_names, kdamonds_names_to_turn_off, kRunning,
                   kTurnedOn, nApplied, kApplied>>
    /\ UNCHANGED runOthers

\* A kdamond turns itself off, as it does when its target tasks have
\* terminated (line 61)
KdamondTerminates ==
    /\ mPc \notin {"idle", "exited"}
    /\ \E k \in kRunning : kRunning' = kRunning \ {k}
    /\ UNCHANGED <<mPc, kdamonds_names, kdamonds_names_to_turn_off, kTurnedOn,
                   nApplied, kApplied, sigAt, nSignals>>
    /\ UNCHANGED runOthers

\* The steps of the program
RunStep ==
    \/ RunTurnOn
    \/ RunTurnedOn
    \/ RunAssignNames
    \/ RunWaitTurnedOff
    \/ CleanupCollect
    \/ CleanupTurnOff
    \/ CleanupWaitOff
    \/ CleanupApply
    \/ CleanupExit

RunNext ==
    \/ RunStep
    \/ RunTurnOnFails
    \/ RunSignal
    \/ KdamondTerminates

\* The process has exited with every kdamond it turned on off, the
\* kdamonds of the start re-applied once, and no kdamond running then
StoppedAndRestored ==
    /\ kTurnedOn \cap kRunning = {}
    /\ nApplied = 1
    /\ kApplied = {}

\* C29: once main has installed its signal handlers, then for a signal
\* delivered at any later point, for a failure to turn DAMON on and for
\* normal completion, cleanup_exit reaches exit, and when the process exits
\* every kdamond that this run turned on has been turned off and, after
\* that, the kdamonds of orig_kdamonds have been re-applied exactly once.
C29_StopAndRestoreOnEveryExitPath ==
    /\ [](mPc = "exited" => StoppedAndRestored)
    /\ (mPc \in CleanupPcs ~> mPc = "exited")

\* kdamonds_names has been assigned, or no kdamond had been turned on, when
\* cleanup_exit was first called, and no signal has been delivered after
\* the kdamonds of the start were re-applied
NamesKnownAndNotInterrupted ==
    /\ kdamonds_names # NoNames \/ kTurnedOn = {}
    /\ sigAt \cap {"exit"} = {}

\* What the code does keep: the same when cleanup_exit is first called with
\* kdamonds_names assigned or with no kdamond turned on, and no signal is
\* delivered after it has re-applied the kdamonds of the start
StopAndRestoreWithNamesKnown ==
    /\ [](mPc = "exited" /\ NamesKnownAndNotInterrupted => StoppedAndRestored)
    /\ (mPc \in CleanupPcs /\ NamesKnownAndNotInterrupted
           ~> mPc = "exited" \/ ~NamesKnownAndNotInterrupted)

\* A signal was delivered while DAMON was being turned on and cleanup_exit
\* waits with a kdamond of this run running that it has not turned off
CleanupWaitsForKdamondLeftOn ==
    /\ mPc = "wait_off"
    /\ "turn_on" \in sigAt
    /\ kdamonds_names = NoNames
    /\ kdamonds_names_to_turn_off = {}
    /\ kRunning # {}

\* The process has exited after a second signal with the kdamonds of the
\* start re-applied twice
RestoredTwice ==
    /\ mPc = "exited"
    /\ nSignals = 2
    /\ nApplied = 2

(***************************************************************************)
(* Specifications                                                          *)
(***************************************************************************)
InitAggr == AggrInit /\ PatIdle /\ CodecIdle /\ CfgIdle /\ HeapIdle /\ RunIdle
SpecAggr == InitAggr /\ [][AggrNext]_vars

InitPat == PatInit /\ AggrInit /\ CodecIdle /\ CfgIdle /\ HeapIdle /\ RunIdle
SpecPat == InitPat /\ [][PatNext]_vars

InitRoundTrip == RoundTripInit /\ AggrInit /\ PatIdle /\ CfgIdle /\ HeapIdle /\ RunIdle
SpecRoundTrip == InitRoundTrip /\ [][RoundTripNext]_vars

InitStream == StreamInit /\ AggrInit /\ PatIdle /\ CfgIdle /\ HeapIdle /\ RunIdle
SpecStream == InitStream /\ [][StreamNext]_vars

InitTag == TagInit /\ AggrInit /\ CodecIdle /\ CfgIdle /\ HeapIdle /\ RunIdle
SpecTag == InitTag /\ [][TagNext]_vars

\* The program goes on as long as it has a step to take; nothing makes a
\* kdamond turn itself off or a signal come
InitRun == RunInit /\ AggrInit /\ PatIdle /\ CodecIdle /\ CfgIdle /\ HeapIdle
SpecRun == InitRun /\ [][RunNext]_vars /\ WF_vars(RunStep)

SpecReencode == InitRoundTrip /\ [][ReencodeNext]_vars

InitText == TextInit /\ AggrInit /\ PatIdle /\ CfgIdle /\ HeapIdle /\ RunIdle
SpecText == InitText /\ [][TextNext]_vars

InitCfg == CfgInit /\ AggrInit /\ PatIdle /\ CodecIdle /\ HeapIdle /\ RunIdle
SpecCfg == InitCfg /\ [][CfgNext]_vars

InitHeap == HeapInit /\ AggrInit /\ PatIdle /\ CodecIdle /\ CfgIdle /\ RunIdle
SpecHeap == InitHeap /\ [][HeapNext]_vars

====
